---- MODULE Spec2Model ----
(***************************************************************************)
(* The profiling-log parsers of access.profiling as one state machine.     *)
(*                                                                         *)
(* One behaviour is one call of one parser: Init fixes the parser, its     *)
(* construction-time configuration and (for the parsers that match the     *)
(* whole text at once) the text; the actions are the steps of read/parse.  *)
(* The ESMF parser loops over the lines of its stream, so its lines are    *)
(* supplied one per step.                                                  *)
(*                                                                         *)
(* Text is modelled as lines of whitespace-separated tokens.  A token has  *)
(* a class that says which character classes of the regular expressions   *)
(* and which conversions (int, float) accept it:                           *)
(*   "int"   digits only                    "12"                           *)
(*   "flt"   digits with one dot            "12.5"                         *)
(*   "dots"  digits and dots, not a number  "1.2.3"                        *)
(*   "word"  letters (and : ( ) _ / - * &)  "Ocean"                        *)
(*   "pct"   a number followed by %         "0.34%"                        *)
(*   "pe"    a parenthesised number         "( 118)"                       *)
(*   "sym"   anything else                  "******", "="                  *)
(* A number is carried in field n.  Times are integers in the unit the     *)
(* parser reads; floating-point values are exact (rounding is not          *)
(* modelled, times are numbers and never not-a-number), and a quotient is  *)
(* kept as a fraction <<num, den>>.                                        *)
(***************************************************************************)
EXTENDS Integers, Sequences, FiniteSets, TLC

VARIABLES
    parser,        \* which parser class is being called
    hierarchical,  \* ESMFSummaryProfilingParser.hierarchical
    has_hits,      \* FMSProfilingParser.has_hits
    text,          \* the input of the call; ESMF: the line of the stream the loop is at
    pc,            \* "reading" while the call runs, "done" once it has returned or raised
    outcome,       \* "running", "returned", or the name of the exception raised
    result,        \* the flat result dict being built: key -> list
    tree,          \* ESMF hierarchical result: path of region labels -> stats of that node
    stack,         \* ESMF hierarchical mode: the (node, indent_level) stack
    started,       \* ESMF: a non-blank line of the stream has been seen (stream.strip())
    nread,         \* number of lines of the stream (files of the walk) consumed so far
    accepted,      \* ESMF: history of the accepted lines (for stating the properties)
    message,       \* what the exception raised names, where a property is about it
    trace,         \* the effects of the call on its environment, in order
    calls,         \* the read calls in progress on one shared parser instance
    experiments,   \* ProfilingManager.experiments: the experiments in dict order
    data,          \* ProfilingManager.data: the names of the experiments with parsed data
    fs             \* the files of the archive directory

vars == <<parser, hierarchical, has_hits, text, pc, outcome, result, tree, stack,
          started, nread, accepted, message, trace, calls, experiments, data, fs>>

\* What a call of a single parser leaves alone / what a manager leaves alone.
managerVars == <<calls, experiments, data, fs>>
otherVars == <<message, trace, calls, experiments, data, fs>>
esmfVars == <<hierarchical, has_hits, tree, stack, started, nread, accepted>>

\* Longest stream/section, in lines.
MaxLines == 3

-----------------------------------------------------------------------------
(* Tokens and the conversions applied to them                              *)

W(s) == [cls |-> "word", w |-> s, n |-> 0]
I(k) == [cls |-> "int", w |-> "", n |-> k]
F(k) == [cls |-> "flt", w |-> "", n |-> k]
D(s) == [cls |-> "dots", w |-> s, n |-> 0]
P(k) == [cls |-> "pct", w |-> "", n |-> k]
PE(k) == [cls |-> "pe", w |-> "", n |-> k]
X(s) == [cls |-> "sym", w |-> s, n |-> 0]

\* int(tok) succeeds / float(tok) succeeds
IsInt(tok) == tok.cls = "int"
IsFloat(tok) == tok.cls \in {"int", "flt"}

\* A fraction num/den, den # 0.
Frac(num, den) == <<num, den>>
FracEq(a, b) == a[1] * b[2] = b[1] * a[2]

\* The text of a token, as str.split() returns it.
TokText(tok) == IF tok.cls \in {"word", "dots", "sym"} THEN tok.w ELSE ToString(tok.n)

\* sep.join(words)
RECURSIVE Join(_, _)
Join(words, sep) ==
    IF Len(words) = 0 THEN ""
    ELSE IF Len(words) = 1 THEN words[1]
    ELSE words[1] \o sep \o Join(Tail(words), sep)

\* list.index(x): the first position of x, 0 when x is not in the list
\* (where Python raises ValueError).
Index(list, x) ==
    IF \E i \in 1..Len(list) : list[i] = x
    THEN CHOOSE i \in 1..Len(list) : list[i] = x /\ \A j \in 1..(i - 1) : list[j] # x
    ELSE 0

\* The sequences of at most n elements of S.
SeqsUpTo(S, n) == UNION {[1..k -> S] : k \in 0..n}

Raise(exc) == pc' = "done" /\ outcome' = exc
Return == pc' = "done" /\ outcome' = "returned"

-----------------------------------------------------------------------------
(* ESMF summary parser                                                     *)

ESMFMetrics == <<"PETs", "PEs", "count", "tavg", "tmin", "pemin", "tmax", "pemax">>

EmptyResult(metrics) ==
    [k \in {"region"} \cup {metrics[i] : i \in 1..Len(metrics)} |-> <<>>]

\* A line of the stream: its leading whitespace and its tokens.
ESMFLine(indent, parts) == [indent |-> indent, parts |-> parts]
StatLine(indent, region, pets, pes, cnt, avg, mn, pmn, mx, pmx) ==
    ESMFLine(indent, <<W(region), I(pets), I(pes), I(cnt), F(avg), F(mn), I(pmn), F(mx), I(pmx)>>)

\* region = " ".join(parts[:-8]); stats = parts[-8:]
RegionOf(parts) == Join([i \in 1..(Len(parts) - 8) |-> TokText(parts[i])], " ")
StatsOf(parts) == SubSeq(parts, Len(parts) - 7, Len(parts))

\* Variant of the try block that converts every statistic with float.
StatsParseAsFloats(stats) == \A i \in 1..8 : IsFloat(stats[i])

\* The try block of read: all eight conversions succeed.
StatsParse(stats) ==
    /\ IsInt(stats[1]) /\ IsInt(stats[2]) /\ IsInt(stats[3])
    /\ IsFloat(stats[4]) /\ IsFloat(stats[5]) /\ IsInt(stats[6])
    /\ IsFloat(stats[7]) /\ IsInt(stats[8])

\* A line is used when it has a region and eight statistics that all convert.
Accepted(line) ==
    /\ Len(line.parts) >= 1 + Len(ESMFMetrics)
    /\ StatsParse(StatsOf(line.parts))

StatsDict(stats) ==
    [PETs |-> stats[1].n, PEs |-> stats[2].n, count |-> stats[3].n,
     tavg |-> Frac(stats[4].n, 1), tmin |-> stats[5].n, pemin |-> stats[6].n,
     tmax |-> stats[7].n, pemax |-> stats[8].n]

\* lines = stream.strip().split("\n"): the whitespace before the first
\* non-blank line of the stream is gone, so that line has no indentation.
StrippedIndent(line) == IF started THEN line.indent ELSE 0

\* --- flat mode: _update_flat_result ---

\* Variant of the check that compares with the stored entry only.
PEsAgreeWithStoredOnly(res, idx, sd) ==
    /\ res["PETs"][idx] = sd.PETs
    /\ res["PEs"][idx] = sd.PEs

PEsAgree(res, idx, sd) ==
    /\ res["PETs"][idx] = sd.PETs
    /\ res["PEs"][idx] = sd.PEs
    /\ sd.PETs = sd.PEs

WeightedAvg(avg, cnt, sd) ==
    Frac(avg[1] * cnt * sd.tavg[2] + sd.tavg[1] * sd.count * avg[2],
         avg[2] * sd.tavg[2] * (cnt + sd.count))

\* Variant of the comparison that also replaces the minimum on a tie.
TakesMinOnTie(res, idx, sd) == sd.tmin <= res["tmin"][idx]

TakesMin(res, idx, sd) == sd.tmin < res["tmin"][idx]
TakesMax(res, idx, sd) == sd.tmax > res["tmax"][idx]

Merged(res, idx, sd) ==
    [res EXCEPT
        !["tavg"][idx] = WeightedAvg(res["tavg"][idx], res["count"][idx], sd),
        !["count"][idx] = @ + sd.count,
        !["tmin"][idx] = IF TakesMin(res, idx, sd) THEN sd.tmin ELSE @,
        !["pemin"][idx] = IF TakesMin(res, idx, sd) THEN sd.pemin ELSE @,
        !["tmax"][idx] = IF TakesMax(res, idx, sd) THEN sd.tmax ELSE @,
        !["pemax"][idx] = IF TakesMax(res, idx, sd) THEN sd.pemax ELSE @]

\* Variant of the append that leaves the pemax list as it is.
AppendedWithoutPEMax(res, sd, region) ==
    [k \in DOMAIN res |->
        IF k = "region" THEN Append(res[k], region)
        ELSE IF k = "pemax" THEN res[k]
        ELSE Append(res[k], sd[k])]

Appended(res, sd, region) ==
    [k \in DOMAIN res |->
        IF k = "region" THEN Append(res[k], region) ELSE Append(res[k], sd[k])]

\* The outcome of _update_flat_result: the exception it raises, or "ok".
FlatUpdateOutcome(res, sd, region) ==
    LET idx == Index(res["region"], region) IN
    IF idx = 0 THEN "ok"
    ELSE IF ~PEsAgree(res, idx, sd) THEN "NotImplementedError"
    ELSE IF res["count"][idx] + sd.count = 0 THEN "ZeroDivisionError"
    ELSE "ok"

FlatUpdate(res, sd, region) ==
    LET idx == Index(res["region"], region) IN
    IF idx = 0 THEN Appended(res, sd, region) ELSE Merged(res, idx, sd)

\* --- hierarchical mode ---

\* Variant in which the root has the depth of an unindented line.
RootAtDepthZero == [node |-> <<>>, level |-> 0]

\* stack = [(result, -1)]: the root of the tree, below every line.
RootEntry == [node |-> <<>>, level |-> -1]

\* Variant that leaves an entry of the same depth on the stack.
RECURSIVE PopDeeper(_, _)
PopDeeper(stk, level) ==
    IF Len(stk) > 0 /\ stk[Len(stk)].level > level
    THEN PopDeeper(SubSeq(stk, 1, Len(stk) - 1), level)
    ELSE stk

\* while stack and stack[-1][1] >= indent_level: stack.pop()
RECURSIVE PopStack(_, _)
PopStack(stk, level) ==
    IF Len(stk) > 0 /\ stk[Len(stk)].level >= level
    THEN PopStack(SubSeq(stk, 1, Len(stk) - 1), level)
    ELSE stk

IndentLevel(indent) == indent \div 2

\* Variant that stores a fresh node at every occurrence of a label.
TreeReplace(t, node, sd) ==
    [p \in {q \in DOMAIN t : Len(q) <= Len(node) \/ SubSeq(q, 1, Len(node)) # node}
            \cup {node} |-> IF p = node THEN sd ELSE t[p]]

\* parent_dict[region].update(stats_dict): the node is created when absent,
\* its statistics are replaced, its children (longer paths) are untouched.
TreeUpdate(t, node, sd) ==
    [p \in DOMAIN t \cup {node} |-> IF p = node THEN sd ELSE t[p]]

-----------------------------------------------------------------------------
(* The inputs                                                              *)

Blank == ESMFLine(0, <<>>)
\* a region and seven statistics: fewer than nine tokens
ShortLine == ESMFLine(2, <<W("A"), I(1), I(1), I(1), F(1), F(1), I(0), F(1)>>)
\* nine tokens, the PETs column is not an integer
BadStatLine == ESMFLine(2, <<W("A"), F(1), I(1), I(1), F(1), F(1), I(0), F(1), I(0)>>)
SkippedLines == {Blank, ShortLine, BadStatLine}

FlatLines ==
    {StatLine(0, "A", 1, 1, c, a, 2, 0, 5, 0) : c \in {0, 1, 2}, a \in {1, 4}}
    \cup {StatLine(0, "A", p[1], p[2], 1, 1, 2, 0, 5, 0) : p \in {<<2, 2>>, <<1, 2>>}}
    \cup {StatLine(0, "A", 1, 1, 1, 1, mn, pe, mx, pe) :
             mn \in {1, 2}, mx \in {5, 6}, pe \in {0, 1}}
    \cup {StatLine(0, "B", 1, 1, 1, 1, 2, 0, 5, 0), StatLine(0, "B", 1, 2, 1, 1, 2, 0, 5, 0)}
    \cup SkippedLines

HierLines ==
    {StatLine(ind, r, a, 1, 1, a, 2, 0, 5, 0) :
        ind \in {0, 1, 2, 4}, r \in {"A", "B"}, a \in {1, 4}}
    \cup SkippedLines

ESMFLines == IF hierarchical THEN HierLines ELSE FlatLines

-----------------------------------------------------------------------------
(* ESMFSummaryProfilingParser.read, one line of the loop per step          *)

ESMFRunning == parser = "esmf" /\ pc = "reading" /\ nread < MaxLines

\* The line is skipped: too few tokens, or a statistic does not convert.
ESMFSkipLine ==
    /\ ESMFRunning
    /\ \E line \in ESMFLines :
        /\ ~Accepted(line)
        /\ text' = <<line>>
        /\ started' = (started \/ Len(line.parts) > 0)
    /\ nread' = nread + 1
    /\ UNCHANGED <<parser, hierarchical, has_hits, pc, outcome, result, tree,
                   stack, accepted>>
    /\ UNCHANGED otherVars

ESMFFlatLine ==
    /\ ESMFRunning
    /\ ~hierarchical
    /\ \E line \in ESMFLines :
        /\ Accepted(line)
        /\ text' = <<line>>
        /\ LET region == RegionOf(line.parts)
               sd == StatsDict(StatsOf(line.parts))
               out == FlatUpdateOutcome(result, sd, region)
           IN  /\ IF out = "ok"
                  THEN /\ result' = FlatUpdate(result, sd, region)
                       /\ UNCHANGED <<pc, outcome>>
                  ELSE /\ Raise(out)
                       /\ UNCHANGED result
               /\ accepted' = Append(accepted,
                                 [region |-> region, sd |-> sd, indent |-> line.indent,
                                  level |-> 0, node |-> <<>>, ok |-> out = "ok"])
    /\ started' = TRUE
    /\ nread' = nread + 1
    /\ UNCHANGED <<parser, hierarchical, has_hits, tree, stack>>
    /\ UNCHANGED otherVars

ESMFHierLine ==
    /\ ESMFRunning
    /\ hierarchical
    /\ \E line \in ESMFLines :
        /\ Accepted(line)
        /\ text' = <<line>>
        /\ LET region == RegionOf(line.parts)
               sd == StatsDict(StatsOf(line.parts))
               indent_level == IndentLevel(StrippedIndent(line))
               popped == PopStack(stack, indent_level)
           IN  IF Len(popped) = 0
               THEN \* stack[-1] on an empty list
                    /\ Raise("IndexError")
                    /\ stack' = popped
                    /\ UNCHANGED <<tree, accepted>>
               ELSE LET node == Append(popped[Len(popped)].node, region) IN
                    /\ tree' = TreeUpdate(tree, node, sd)
                    /\ stack' = Append(popped, [node |-> node, level |-> indent_level])
                    /\ accepted' = Append(accepted,
                                     [region |-> region, sd |-> sd, indent |-> line.indent,
                                      level |-> indent_level, node |-> node,
                                      ok |-> TRUE])
                    /\ UNCHANGED <<pc, outcome>>
    /\ started' = TRUE
    /\ nread' = nread + 1
    /\ UNCHANGED <<parser, hierarchical, has_hits, result>>
    /\ UNCHANGED otherVars

\* After the loop: no data raises ValueError, otherwise the result is returned.
ESMFFinish ==
    /\ parser = "esmf" /\ pc = "reading"
    /\ IF (hierarchical /\ DOMAIN tree = {}) \/ (~hierarchical /\ Len(result["region"]) = 0)
       THEN Raise("ValueError")
       ELSE Return
    /\ UNCHANGED <<parser, hierarchical, has_hits, text, result, tree, stack, started,
                   nread, accepted>>
    /\ UNCHANGED otherVars

-----------------------------------------------------------------------------
(* Calls of read in progress on one ESMFSummaryProfilingParser instance    *)
(*                                                                         *)
(* Threads share the instance (its attribute hierarchical); the lines,     *)
(* the result and the stack are local variables of each call.  The calls   *)
(* interleave line by line.                                                *)

MaxCallLines == 2
Threads == {"t1", "t2"}

CallLines(h) ==
    IF h THEN {StatLine(0, "A", 1, 1, 1, 1, 2, 0, 5, 0),
               StatLine(2, "B", 1, 1, 1, 4, 2, 0, 5, 0)}
    ELSE {StatLine(0, "A", 1, 1, 1, 1, 2, 0, 5, 0),
          StatLine(0, "A", 1, 1, 2, 4, 1, 1, 6, 1)}

\* The local variables of a call when the loop starts.
CallInit(h, lines) ==
    [lines |-> lines, pos |-> 0, outcome |-> "running", started |-> FALSE,
     result |-> IF h THEN [k \in {} |-> <<>>] ELSE EmptyResult(ESMFMetrics),
     tree |-> [p \in {} |-> 0],
     stack |-> IF h THEN <<RootEntry>> ELSE <<>>]

\* Variant in which the result under construction is an attribute of the
\* instance: every call works on the one the first thread works on.
ResultOnInstance(cs, t) ==
    [cs[t] EXCEPT !.result = cs["t1"].result, !.tree = cs["t1"].tree]

\* The variables the call of thread t works on: its own.
Local(cs, t) == cs[t]

\* One pass of the loop of read on the next line of the call.
CallLine(h, c) ==
    LET line == c.lines[c.pos + 1]
        next == [c EXCEPT !.pos = c.pos + 1,
                          !.started = c.started \/ Len(line.parts) > 0]
    IN  IF ~Accepted(line) THEN next
        ELSE LET region == RegionOf(line.parts)
                 sd == StatsDict(StatsOf(line.parts))
             IN  IF ~h
                 THEN LET out == FlatUpdateOutcome(c.result, sd, region) IN
                      IF out = "ok"
                      THEN [next EXCEPT !.result = FlatUpdate(c.result, sd, region)]
                      ELSE [next EXCEPT !.outcome = out]
                 ELSE LET indent_level ==
                              IndentLevel(IF c.started THEN line.indent ELSE 0)
                          popped == PopStack(c.stack, indent_level)
                      IN  IF Len(popped) = 0
                          THEN [next EXCEPT !.outcome = "IndexError", !.stack = popped]
                          ELSE LET node == Append(popped[Len(popped)].node, region) IN
                               [next EXCEPT
                                   !.tree = TreeUpdate(c.tree, node, sd),
                                   !.stack = Append(popped, [node |-> node,
                                                             level |-> indent_level])]

\* After the loop: no data raises ValueError, otherwise the result is returned.
CallEnd(h, c) ==
    [c EXCEPT !.outcome =
        IF (h /\ DOMAIN c.tree = {}) \/ (~h /\ Len(c.result["region"]) = 0)
        THEN "ValueError" ELSE "returned"]

\* read run from start to end on its own.
RECURSIVE ReadFrom(_, _)
ReadFrom(h, c) ==
    IF c.outcome # "running" THEN c
    ELSE IF c.pos = Len(c.lines) THEN CallEnd(h, c)
    ELSE ReadFrom(h, CallLine(h, c))

ESMFRead(h, lines) == ReadFrom(h, CallInit(h, lines))

CallStep(t) ==
    /\ parser = "shared"
    /\ calls[t].outcome = "running"
    /\ calls[t].pos < Len(calls[t].lines)
    /\ calls' = [calls EXCEPT ![t] = CallLine(hierarchical, Local(calls, t))]
    /\ UNCHANGED <<parser, text, pc, outcome, result, message, trace, experiments,
                   data, fs>>
    /\ UNCHANGED esmfVars

CallReturn(t) ==
    /\ parser = "shared"
    /\ calls[t].outcome = "running"
    /\ calls[t].pos = Len(calls[t].lines)
    /\ calls' = [calls EXCEPT ![t] = CallEnd(hierarchical, Local(calls, t))]
    /\ UNCHANGED <<parser, text, pc, outcome, result, message, trace, experiments,
                   data, fs>>
    /\ UNCHANGED esmfVars

-----------------------------------------------------------------------------
(* ProfilingExperiment                                                     *)
(*                                                                         *)
(* A path is the name of the file it names, split at its dots.  The call   *)
(* of archive is taken in steps: the checks and the opening of the tar     *)
(* file, one file of the experiment directory per step, and the closing    *)
(* of the tar file with the two assignments that follow it.                *)

MaxFiles == 2

Statuses == {"NEW", "RUNNING", "DONE", "ARCHIVED"}

\* Path.suffixes == [".tar", ".gz"]
IsTarGz(path) == Len(path) = 3 /\ path[2] = "tar" /\ path[3] = "gz"

\* ProfilingExperiment(path)
Experiment(name, path) ==
    [name |-> name, path |-> path, status |-> IF IsTarGz(path) THEN "ARCHIVED" ELSE "NEW"]

\* Path.with_suffix(".tar.gz"): the last suffix of the name, if there is
\* one, is replaced.
WithSuffixTarGz(path) ==
    (IF Len(path) > 1 THEN SubSeq(path, 1, Len(path) - 1) ELSE path) \o <<"tar", "gz">>

\* Variant of the test that looks for the destination as it was given.
GivenPathExists(archive_path, files) == archive_path \in files

\* archive_file.exists()
ArchiveFileExists(archive_path, files) == WithSuffixTarGz(archive_path) \in files

\* Variant that records the archive as soon as the tar file is open.
RecordedWhenOpen(e, archive_file, step) ==
    [e EXCEPT !.status = "ARCHIVED", !.path = archive_file]

\* The experiment after a step of archive: the two assignments follow the
\* with block of the tar file.
ExperimentAfter(e, archive_file, step) ==
    IF step = "close" THEN [e EXCEPT !.status = "ARCHIVED", !.path = archive_file]
    ELSE e

\* The files the walker yields: its name, whether an exclusion pattern
\* matches it.
ExpFile(name, excluded) == [name |-> name, excluded |-> excluded]
ExpFiles == {ExpFile("config.yaml", FALSE), ExpFile("work", TRUE)}

ArchiveCall ==
    /\ parser = "archive" /\ pc = "reading"
    /\ LET e == experiments[1] IN
       IF e.status # "DONE"
       THEN /\ trace' = Append(trace, "warn")
            /\ Return
            /\ UNCHANGED <<experiments, fs>>
       ELSE IF ArchiveFileExists(text.archive_path, fs)
       THEN /\ Raise("FileExistsError")
            /\ UNCHANGED <<trace, experiments, fs>>
       ELSE /\ trace' = Append(trace, "open")
            /\ fs' = fs \cup {WithSuffixTarGz(text.archive_path)}
            /\ experiments' = [experiments EXCEPT ![1] =
                   ExperimentAfter(e, WithSuffixTarGz(text.archive_path), "open")]
            /\ pc' = "adding"
            /\ UNCHANGED outcome
    /\ UNCHANGED <<parser, text, result, message, calls, data>>
    /\ UNCHANGED esmfVars

\* One file of the walk: excluded, added, or the cause of a failure that
\* leaves the with block.
ArchiveAdd ==
    /\ parser = "archive" /\ pc = "adding"
    /\ nread < Len(text.files)
    /\ nread' = nread + 1
    /\ LET file == text.files[nread + 1] IN
       IF file.excluded
       THEN UNCHANGED <<trace, pc, outcome, experiments>>
       ELSE IF text.fails_at = nread + 1
       THEN /\ trace' = Append(trace, "fail")
            /\ Raise("OSError")
            /\ experiments' = [experiments EXCEPT ![1] =
                   ExperimentAfter(@, WithSuffixTarGz(text.archive_path), "fail")]
       ELSE /\ trace' = Append(trace, file.name)
            /\ experiments' = [experiments EXCEPT ![1] =
                   ExperimentAfter(@, WithSuffixTarGz(text.archive_path), "add")]
            /\ UNCHANGED <<pc, outcome>>
    /\ UNCHANGED <<parser, hierarchical, has_hits, text, result, tree, stack, started,
                   accepted, message, calls, data, fs>>

ArchiveClose ==
    /\ parser = "archive" /\ pc = "adding"
    /\ nread = Len(text.files)
    /\ trace' = Append(trace, "close")
    /\ experiments' = [experiments EXCEPT ![1] =
           ExperimentAfter(@, WithSuffixTarGz(text.archive_path), "close")]
    /\ Return
    /\ UNCHANGED <<parser, text, result, message, calls, data, fs>>
    /\ UNCHANGED esmfVars

\* The experiments archive is called on and the destinations given.
ArchivePaths == {<<"exp1">>, <<"exp1", "v2">>, <<"exp1", "tar", "gz">>}
ArchiveInputsAt(ap) ==
    {[experiment |-> [Experiment("exp1", <<"exp1">>) EXCEPT !.status = st],
      archive_path |-> ap, present |-> pr, files |-> fl, fails_at |-> k] :
        st \in Statuses \ {"ARCHIVED"}, pr \in {{}, {ap}, {WithSuffixTarGz(ap)}},
        fl \in SeqsUpTo(ExpFiles, MaxFiles), k \in 0..MaxFiles}
    \cup {[experiment |-> Experiment("exp1", <<"exp1", "tar", "gz">>),
           archive_path |-> ap, present |-> pr, files |-> <<>>, fails_at |-> 0] :
             pr \in {{}, {WithSuffixTarGz(ap)}}}
ArchiveInputs == UNION {ArchiveInputsAt(ap) : ap \in ArchivePaths}

-----------------------------------------------------------------------------
(* PayuManager.run_experiments                                             *)
(*                                                                         *)
(* The experiments of a manager are a sequence, in the order of the dict.  *)

MaxExperiments == 3

Branches == {"branch1", "branch2", "branch3"}

\* The dicts of at most MaxExperiments experiments, of any status.
ExperimentDicts ==
    {es \in SeqsUpTo([name : Branches, path : {<<"config">>}, status : Statuses],
                     MaxExperiments) :
        \A i, j \in 1..Len(es) : es[i].name = es[j].name => i = j}

\* Variant that submits every experiment that is not finished.
RECURSIVE Unfinished(_)
Unfinished(es) ==
    IF Len(es) = 0 THEN <<>>
    ELSE (IF es[1].status \in {"NEW", "RUNNING"} THEN <<es[1].name>> ELSE <<>>)
         \o Unfinished(Tail(es))

\* running_branches after the first loop: the keys of the NEW experiments.
RECURSIVE RunningBranches(_)
RunningBranches(es) ==
    IF Len(es) = 0 THEN <<>>
    ELSE (IF es[1].status = "NEW" THEN <<es[1].name>> ELSE <<>>)
         \o RunningBranches(Tail(es))

\* The statuses after the first loop and after the last one.
MarkedRunning(es) ==
    [i \in 1..Len(es) |-> IF es[i].status = "NEW"
                          THEN [es[i] EXCEPT !.status = "RUNNING"] ELSE es[i]]
MarkedDone(es) ==
    [i \in 1..Len(es) |-> IF es[i].status = "RUNNING"
                          THEN [es[i] EXCEPT !.status = "DONE"] ELSE es[i]]

RunnerConfig(es, nruns, startfrom_restart) ==
    LET branches == RunningBranches(es) IN
    [running_branches |-> branches,
     nruns |-> [k \in 1..Len(branches) |-> nruns],
     startfrom_restart |-> [k \in 1..Len(branches) |-> startfrom_restart]]

\* The whole call; the runner returns or raises.
RunExperiments ==
    /\ parser = "run" /\ pc = "reading"
    /\ LET config == RunnerConfig(experiments, text.nruns, text.startfrom_restart)
           invoked == Len(config.running_branches) > 0
       IN  /\ trace' = IF invoked THEN Append(trace, config) ELSE trace
           /\ IF invoked /\ text.runner_fails
              THEN /\ Raise("RunnerError")
                   /\ experiments' = MarkedRunning(experiments)
              ELSE /\ Return
                   /\ experiments' = MarkedDone(MarkedRunning(experiments))
    /\ UNCHANGED <<parser, text, result, message, calls, data, fs>>
    /\ UNCHANGED esmfVars

\* Most calls of run_experiments on one manager.
MaxCalls == 2

\* The caller calls run_experiments again, after a return or after catching
\* the exception of the runner: the dict is as the call before left it.  calls
\* keeps how the earlier calls ended and what they submitted, text and trace
\* are those of the call that starts.
RunAgain ==
    /\ parser = "run" /\ pc = "done"
    /\ Len(calls) + 1 < MaxCalls
    /\ calls' = Append(calls, [outcome |-> outcome, submitted |-> trace])
    /\ \E fails \in BOOLEAN :
          text' = [text EXCEPT !.experiments = experiments, !.runner_fails = fails]
    /\ trace' = <<>>
    /\ pc' = "reading"
    /\ outcome' = "running"
    /\ UNCHANGED <<parser, result, message, experiments, data, fs>>
    /\ UNCHANGED esmfVars

RunInputs ==
    [experiments : ExperimentDicts, nruns : {1, 2},
     startfrom_restart : {"cold", "restart000"}, runner_fails : BOOLEAN]

-----------------------------------------------------------------------------
(* ProfilingManager.parse_profiling_data                                   *)
(*                                                                         *)
(* manager.data maps the name of an experiment to the names of its logs    *)
(* that were parsed.  A log is its name, whether it is optional, and what  *)
(* its parse does.                                                         *)

ProfLog(name, optional, parse) == [name |-> name, optional |-> optional, parse |-> parse]

\* The dicts profiling_logs returns.
LogDicts ==
    {<<>>,
     <<ProfLog("log", FALSE, "ok")>>,
     <<ProfLog("log", FALSE, "ok"), ProfLog("optional_log", TRUE, "ok"),
       ProfLog("missing_log", TRUE, "FileNotFoundError")>>,
     <<ProfLog("log", FALSE, "ok"), ProfLog("broken_log", FALSE, "FileNotFoundError")>>,
     <<ProfLog("optional_log", TRUE, "ValueError"), ProfLog("log", FALSE, "ok")>>}

\* ProfilingLog.optional
LogOptional(log) == log.optional

\* What parsing one log does to the call: it goes on, or it raises.
LogOutcome(log) ==
    IF log.parse = "ok" THEN "ok"
    ELSE IF LogOptional(log) /\ log.parse = "FileNotFoundError" THEN "skip"
    ELSE log.parse

\* Variant of the test that takes only the experiments that are DONE.
OnlyDone(e) == e.status = "DONE"

\* The experiments whose data is parsed.
Completed(e) == e.status = "DONE" \/ e.status = "ARCHIVED"

\* The logs of one experiment in order: the entry of the experiment, the
\* calls of parse, and the exception that ends the loop if there is one.
RECURSIVE ParseLogs(_, _)
ParseLogs(logs, st) ==
    IF Len(logs) = 0 \/ st.outcome # "ok" THEN st
    ELSE LET log == logs[1]
             out == LogOutcome(log)
             read == [st EXCEPT !.reads = Append(st.reads, log.name)]
         IN  ParseLogs(Tail(logs),
                 IF out = "ok" THEN [read EXCEPT !.entry = st.entry \cup {log.name}]
                 ELSE IF out = "skip" THEN read
                 ELSE [read EXCEPT !.outcome = out])

\* The loop over the experiments, from the state st of the call.
RECURSIVE ParseExperiments(_, _, _)
ParseExperiments(es, logs, st) ==
    IF Len(es) = 0 \/ st.outcome # "ok" THEN st
    ELSE LET e == es[1] IN
         ParseExperiments(Tail(es), logs,
             IF Completed(e)
             THEN LET p == ParseLogs(logs, [entry |-> {}, reads |-> <<>>, outcome |-> "ok"])
                  IN  [data |-> [n \in DOMAIN st.data \cup {e.name} |->
                                    IF n = e.name THEN p.entry ELSE st.data[n]],
                       trace |-> st.trace
                                 \o [k \in 1..Len(p.reads) |-> <<"parse", e.name, p.reads[k]>>],
                       outcome |-> p.outcome]
             ELSE [st EXCEPT !.trace = Append(st.trace, <<"warning", e.name>>)])

NoData == [n \in {} |-> {}]

\* Variant that starts from the data of the call before.
DataKept(previous) == previous

\* self.data = {}, the first statement of the call
DataAtStart(previous) == NoData

ParseProfilingData ==
    /\ parser = "parse" /\ pc = "reading"
    /\ LET end == ParseExperiments(experiments, text.logs,
                                   [data |-> DataAtStart(data), trace |-> trace,
                                    outcome |-> "ok"])
       IN  /\ data' = end.data
           /\ trace' = end.trace
           /\ IF end.outcome = "ok" THEN Return ELSE Raise(end.outcome)
    /\ UNCHANGED <<parser, text, result, message, calls, experiments, fs>>
    /\ UNCHANGED esmfVars

\* The data of an earlier call.
PreviousData == {NoData, [n \in {"branch1", "removed"} |-> {"stale_log"}]}

ParseInputs == [experiments : ExperimentDicts, logs : LogDicts, previous : PreviousData]

-----------------------------------------------------------------------------
(* ProfilingManager: a sequence of operations on one manager               *)
(*                                                                         *)
(* nread counts the operations called so far, outcome is how the last one  *)
(* ended, trace what it logged.                                            *)

\* Most operations called on one manager.
MaxOps == 3

ManagerNames == {"exp1", "exp2"}

Keys(es) == {es[i].name : i \in 1..Len(es)}

\* self.experiments[name] = exp: a new key goes to the end of the dict, the
\* value of a key that is there is replaced where it stands.
PutExperiment(es, e) ==
    IF e.name \in Keys(es)
    THEN [i \in 1..Len(es) |-> IF es[i].name = e.name THEN e ELSE es[i]]
    ELSE Append(es, e)

\* del self.experiments[name]
RECURSIVE DelExperiment(_, _)
DelExperiment(es, name) ==
    IF Len(es) = 0 THEN <<>>
    ELSE (IF es[1].name = name THEN <<>> ELSE <<es[1]>>) \o DelExperiment(Tail(es), name)

ManagerReady == parser = "manager" /\ pc = "reading" /\ nread < MaxOps

\* add_experiment_from_directory(name, path); is_dir stands for the two
\* checks of the path.
AddExperimentFromDirectory ==
    /\ ManagerReady
    /\ nread' = nread + 1
    /\ trace' = <<>>
    /\ \E name \in ManagerNames, is_dir \in BOOLEAN :
          IF ~is_dir
          THEN outcome' = "ValueError" /\ UNCHANGED experiments
          ELSE /\ outcome' = "returned"
               /\ experiments' = PutExperiment(experiments,
                                    [Experiment(name, <<name>>) EXCEPT !.status = "DONE"])
    /\ UNCHANGED <<parser, hierarchical, has_hits, text, pc, result, tree, stack, started,
                   accepted, message, calls, data, fs>>

\* delete_experiment(name): the experiment is no longer tracked, or a warning.
DeleteExperiment ==
    /\ ManagerReady
    /\ nread' = nread + 1
    /\ outcome' = "returned"
    /\ \E name \in ManagerNames :
          IF name \in Keys(experiments)
          THEN experiments' = DelExperiment(experiments, name) /\ trace' = <<>>
          ELSE UNCHANGED experiments /\ trace' = << <<"warning", name>> >>
    /\ UNCHANGED <<parser, hierarchical, has_hits, text, pc, result, tree, stack, started,
                   accepted, message, calls, data, fs>>

\* parse_profiling_data()
ManagerParse ==
    /\ ManagerReady
    /\ nread' = nread + 1
    /\ LET end == ParseExperiments(experiments, text.logs,
                                   [data |-> DataAtStart(data), trace |-> <<>>,
                                    outcome |-> "ok"])
       IN  /\ data' = end.data
           /\ trace' = end.trace
           /\ outcome' = IF end.outcome = "ok" THEN "returned" ELSE end.outcome
    /\ UNCHANGED <<parser, hierarchical, has_hits, text, pc, result, tree, stack, started,
                   accepted, message, calls, experiments, fs>>

\* archive_experiments(): archive is called on each experiment of the dict
\* with the keyword overwrite, which ProfilingExperiment.archive does not
\* take, so the call of the first experiment raises TypeError; the archive
\* directory has been made by then.
ArchiveExperiments ==
    /\ ManagerReady
    /\ nread' = nread + 1
    /\ trace' = <<>>
    /\ fs' = fs \cup {<<"archive_dir">>}
    /\ outcome' = IF Len(experiments) = 0 THEN "returned" ELSE "TypeError"
    /\ UNCHANGED <<parser, hierarchical, has_hits, text, pc, result, tree, stack, started,
                   accepted, message, calls, experiments, data>>

\* The experiments __init__ finds in the archive directory, and the logs
\* of the model.
ManagerInputs ==
    [experiments : {<<>>, <<Experiment("exp1", <<"exp1", "tar", "gz">>)>>},
     logs : {<<ProfLog("log", FALSE, "ok")>>,
             <<ProfLog("log", FALSE, "ok"), ProfLog("broken_log", FALSE, "FileNotFoundError")>>}]

-----------------------------------------------------------------------------
(* PayuManager.generate_scaling_experiments                                *)
(*                                                                         *)
(* The layouts of a node count, their keys and their perturbation blocks   *)
(* come from the methods a model supplies; a layout is taken with its key  *)
(* and with the branch of its block.  Experiment_k is entry k of the       *)
(* sequence Perturbation_Experiment.                                       *)

MaxNodeCounts == 2

Layout(key, branch) == [key |-> key, branch |-> branch]

\* What generate_core_layouts_from_node_count returns for a node count.
LayoutLists ==
    {<<>>,
     <<Layout("k1", "pert1"), Layout("k2", "pert2")>>,
     <<Layout("k3", "pert3"), Layout("k1", "pert4")>>,
     <<Layout("k2", "pert2"), Layout("k2", "pert5")>>,
     <<Layout("k4", "pert1")>>}

\* Variant that forgets the keys seen at the node counts before.
UniquePerNodeCount(layouts, seen) == 
    LET keep == {i \in 1..Len(layouts) :
                    \A j \in 1..(i - 1) : layouts[j].key # layouts[i].key}
    IN  [k \in 1..Cardinality(keep) |->
            layouts[CHOOSE i \in keep : Cardinality({j \in keep : j <= i}) = k]]

\* unique_layouts: the layouts whose key was not seen before, in order.
RECURSIVE UniqueLayouts(_, _)
UniqueLayouts(layouts, seen) ==
    IF Len(layouts) = 0 THEN <<>>
    ELSE IF layouts[1].key \in seen THEN UniqueLayouts(Tail(layouts), seen)
    ELSE <<layouts[1]>> \o UniqueLayouts(Tail(layouts), seen \cup {layouts[1].key})

\* self.experiments[branch] = ProfilingExperiment(...): a new key goes to
\* the end of the dict, the value of a key that is there is replaced.
Registered(es, branch) ==
    LET e == Experiment(branch, <<"config">>) IN
    IF \E i \in 1..Len(es) : es[i].name = branch
    THEN [i \in 1..Len(es) |-> IF es[i].name = branch THEN e ELSE es[i]]
    ELSE Append(es, e)

\* The unique layouts of one node count, one after the other.
RECURSIVE AddLayouts(_, _)
AddLayouts(unique, st) ==
    IF Len(unique) = 0 THEN st
    ELSE AddLayouts(Tail(unique),
            [st EXCEPT !.blocks = Append(st.blocks, unique[1]),
                       !.experiments = Registered(st.experiments, unique[1].branch),
                       !.trace = Append(st.trace, <<"register", unique[1].branch>>)])

\* The loop over the node counts.
RECURSIVE AddNodeCounts(_, _)
AddNodeCounts(lists, st) ==
    IF Len(lists) = 0 THEN st
    ELSE LET layouts == lists[1] IN
         AddNodeCounts(Tail(lists),
            IF Len(layouts) = 0
            THEN [st EXCEPT !.trace = Append(st.trace, <<"warning", "no layouts">>)]
            ELSE AddLayouts(UniqueLayouts(layouts, st.seen),
                            [st EXCEPT !.seen = st.seen \cup
                                {layouts[i].key : i \in 1..Len(layouts)}]))

GenerateScalingExperiments ==
    /\ parser = "generate" /\ pc = "reading"
    /\ LET end == AddNodeCounts(text.layouts,
                     [seen |-> {}, blocks |-> <<>>, experiments |-> experiments,
                      trace |-> trace])
       IN  /\ experiments' = end.experiments
           /\ trace' = Append(end.trace, <<"generate", end.blocks>>)
    /\ Return
    /\ UNCHANGED <<parser, text, result, message, calls, data, fs>>
    /\ UNCHANGED esmfVars

GenerateInputs ==
    [experiments : {<<>>, <<[Experiment("pert1", <<"config">>) EXCEPT !.status = "DONE"],
                          Experiment("ctrl", <<"config">>)>>},
     layouts : SeqsUpTo(LayoutLists, MaxNodeCounts)]

-----------------------------------------------------------------------------
(* Line-anchored row patterns (re.MULTILINE, finditer)                     *)
(*                                                                         *)
(* The row patterns of the UM and FMS parsers have the shape               *)
(*     ^ lead region (\s+ column)* $                                       *)
(* where \s also matches a line break, so that a match may run over        *)
(* several lines, and the region group is greedy.  At the level of tokens: *)
(* a match starts at the start of a line, skips the tokens the lead        *)
(* accepts, takes as region the longest run of region tokens that is       *)
(* followed by exactly the columns and the end of a line.                  *)

\* A line of text: its leading whitespace and its tokens.
TextLine(indent, toks) == [indent |-> indent, toks |-> toks]
IsBlank(line) == Len(line.toks) = 0

\* The tokens of the lines in order, each with its line and whether it ends it.
RECURSIVE Flatten(_, _)
Flatten(lines, l) ==
    IF l > Len(lines) THEN <<>>
    ELSE [i \in 1..Len(lines[l].toks) |->
             [tok |-> lines[l].toks[i], line |-> l, last |-> i = Len(lines[l].toks)]]
         \o Flatten(lines, l + 1)

Smallest(S) == CHOOSE x \in S : \A y \in S : x <= y
Largest(S) == CHOOSE x \in S : \A y \in S : x >= y

\* The text the region group captures: tokens flat[r..e] with the whitespace
\* between them (a line break where the region runs over a line end).
RECURSIVE Label(_, _, _)
Label(flat, r, e) ==
    IF r = e THEN TokText(flat[r].tok)
    ELSE TokText(flat[r].tok)
         \o (IF flat[r + 1].line = flat[r].line THEN " " ELSE "\n")
         \o Label(flat, r + 1, e)

NoMatch == [ok |-> FALSE, region |-> "", vals |-> <<>>, endLine |-> 0]

\* The match of pattern pat that starts at the start of line l, if any.
\* pat.lead: classes skipped before the region; pat.leadws: lead and the
\* whitespace after it need two characters (UM: [\d\s]+\s+);
\* pat.start / pat.cont: classes of the first / further region tokens;
\* pat.cols: the classes accepted by each column.
MatchAt(lines, flat, pat, l) ==
    LET from == {i \in 1..Len(flat) : flat[i].line >= l} IN
    IF from = {} THEN NoMatch
    ELSE
    LET s == Smallest(from)
        \* whitespace between the start of line l and token s
        ws == (flat[s].line - l) + lines[flat[s].line].indent
        r == Smallest({i \in s..(Len(flat) + 1) :
                          i = Len(flat) + 1 \/ flat[i].tok.cls \notin pat.lead})
        k == Len(pat.cols)
    IN
    IF \/ r > Len(flat)
       \/ flat[r].tok.cls \notin pat.start
       \/ (pat.leadws /\ r = s /\ ws < 2)
    THEN NoMatch
    ELSE
    LET ends == {e \in r..Len(flat) :
                    /\ \A i \in r..e : flat[i].tok.cls \in pat.cont
                    /\ e + k <= Len(flat)
                    /\ \A c \in 1..k : flat[e + c].tok.cls \in pat.cols[c]
                    /\ flat[e + k].last}
    IN
    IF ends = {} THEN NoMatch
    ELSE LET e == Largest(ends) IN
         [ok |-> TRUE, region |-> Label(flat, r, e),
          vals |-> [c \in 1..k |-> flat[e + c].tok],
          endLine |-> flat[e + k].line]

\* pattern.finditer(section): the non-overlapping matches, scanning forward.
RECURSIVE FindAll(_, _, _, _)
FindAll(lines, flat, pat, l) ==
    IF l > Len(lines) THEN <<>>
    ELSE LET m == MatchAt(lines, flat, pat, l) IN
         IF m.ok THEN <<m>> \o FindAll(lines, flat, pat, m.endLine + 1)
         ELSE FindAll(lines, flat, pat, l + 1)

FindIter(lines, pat) == FindAll(lines, Flatten(lines, 1), pat, 1)

\* str.strip() on a block of lines: blank lines at both ends go, and so does
\* the indentation of the first line left.
RECURSIVE DropLeadingBlank(_)
DropLeadingBlank(lines) ==
    IF Len(lines) > 0 /\ IsBlank(lines[1]) THEN DropLeadingBlank(Tail(lines)) ELSE lines

RECURSIVE DropTrailingBlank(_)
DropTrailingBlank(lines) ==
    IF Len(lines) > 0 /\ IsBlank(lines[Len(lines)])
    THEN DropTrailingBlank(SubSeq(lines, 1, Len(lines) - 1))
    ELSE lines

NoIndentFirst(lines) ==
    IF Len(lines) = 0 THEN lines ELSE [lines EXCEPT ![1].indent = 0]

\* _convert_from_string: int, else float, else the string itself.
Value(ty, n, w) == [ty |-> ty, n |-> n, w |-> w]
ConvertFromString(tok) ==
    IF IsInt(tok) THEN Value("int", tok.n, "")
    ELSE IF IsFloat(tok) THEN Value("float", tok.n, "")
    ELSE Value("str", 1, TokText(tok))

NumberClasses == {"int", "flt", "dots"}
AnyClass == {"int", "flt", "dots", "word", "pct", "sym"}

-----------------------------------------------------------------------------
(* UMProfilingParser.parse                                                 *)

UMMetrics == <<"tavg", "tmed", "tstd", "tmax", "pemax", "tmin", "pemin">>

\* profile_line: index columns, region, then one group per metric; the SD
\* group is followed by the ignored "% of mean" token.
UMPattern ==
    [lead |-> {"int"}, leadws |-> TRUE,
     start |-> {"word"}, cont |-> {"word", "int", "flt", "dots", "pe"},
     cols |-> <<NumberClasses, NumberClasses, NumberClasses, AnyClass,
                NumberClasses, {"pe"}, NumberClasses, {"pe"}>>]

\* The column of the match that each metric's group captures.
UMColumnOf == [tavg |-> 1, tmed |-> 2, tstd |-> 3, tmax |-> 5, pemax |-> 6, tmin |-> 7,
               pemin |-> 8]

\* The header pattern allows at most one token (\S*) between "WALLCLOCK  TIMES"
\* and "ROUTINE".
UMHeaderMatches(t) == t.header /\ t.extra <= 1
UMFooterMatches(t) == t.footer # "none"
\* header + (.*) + footer finds a span only when a footer follows the header
UMSectionFound(t) == t.footer = "after"

\* group(1) of the section pattern: the header's trailing \s* has consumed the
\* whitespace in front of the first row.
UMSection(t) == NoIndentFirst(DropLeadingBlank(t.lines))

\* Variant of the line count that counts the non-blank lines only.
UMNumNonBlankLines(section) ==
    Cardinality({l \in 1..Len(section) : ~IsBlank(section[l])})

\* num_lines = len(profiling_section.strip().split("\n")); "".split("\n") is [""]
UMNumLines(section) ==
    LET stripped == DropTrailingBlank(section) IN
    IF Len(stripped) = 0 THEN 1 ELSE Len(stripped)

UMStats(matches) ==
    [k \in {"region"} \cup {UMMetrics[i] : i \in 1..Len(UMMetrics)} |->
        [j \in 1..Len(matches) |->
            IF k = "region" THEN matches[j].region
            ELSE LET tok == matches[j].vals[UMColumnOf[k]] IN
                 ConvertFromString(IF tok.cls = "pe" THEN I(tok.n) ELSE tok)]]

\* The exception parse raises on text t, or "returned".
UMOutcome(t) ==
    IF ~UMHeaderMatches(t) THEN "ValueError"
    ELSE IF ~UMFooterMatches(t) THEN "ValueError"
    ELSE IF ~UMSectionFound(t) THEN "AttributeError"
    ELSE IF Len(FindIter(UMSection(t), UMPattern)) # UMNumLines(UMSection(t))
         THEN "AssertionError"
    ELSE "returned"

UMResult(t) == UMStats(FindIter(UMSection(t), UMPattern))

UMParse ==
    /\ parser = "um" /\ pc = "reading"
    /\ pc' = "done"
    /\ outcome' = UMOutcome(text)
    /\ result' = IF UMHeaderMatches(text) /\ UMFooterMatches(text) /\ UMSectionFound(text)
                 THEN UMResult(text) ELSE result
    /\ UNCHANGED <<parser, hierarchical, has_hits, text, tree, stack, started, nread,
                   accepted>>
    /\ UNCHANGED otherVars

\* --- UM inputs ---

UMCols(v, pct) == <<F(v), F(v + 1), F(1), pct, F(v + 2), PE(3), F(v), PE(4)>>
UMRow(indent, lead, region, v) == TextLine(indent, lead \o <<W(region)>> \o UMCols(v, P(0)))

UMLines ==
    { UMRow(2, <<I(1)>>, "A", 10),
      UMRow(2, <<I(2)>>, "B", 20),
      UMRow(2, <<>>, "B", 20),                     \* no index column
      UMRow(1, <<>>, "B", 20),                     \* no index, one blank in front
      UMRow(2, <<F(7), I(2)>>, "B", 20),           \* a float in front
      UMRow(2, <<W("x"), I(2)>>, "B", 20),         \* a word in front of the index
      TextLine(2, <<I(1), W("A")>> \o UMCols(10, F(0))),   \* "% of mean" without %
      TextLine(2, <<I(2), W("B")>> \o UMCols(20, P(0)) \o <<F(9)>>),  \* extra last column
      TextLine(2, <<I(2), W("B"), F(20), X("******")>> \o SubSeq(UMCols(20, P(0)), 3, 8)),
      TextLine(2, <<I(2), W("B")>>),               \* a row broken after the region ...
      TextLine(2, UMCols(20, P(0))),               \* ... and its second half
      TextLine(2, <<W("g"), X("=")>>),
      TextLine(0, <<>>) }

\* header: the header phrase and column names are there, with `extra` names
\* in front of ROUTINE; footer: no footer phrase, one after the header, or one
\* only before it.
UMFrames ==
    {[header |-> TRUE, extra |-> e, footer |-> "after"] : e \in {0, 1, 2}}
    \cup {[header |-> FALSE, extra |-> 0, footer |-> "after"],
          [header |-> TRUE, extra |-> 0, footer |-> "none"],
          [header |-> TRUE, extra |-> 0, footer |-> "before"]}

\* Tables of up to MaxLines lines between a header and a footer that match;
\* where the header or the footer fails, the lines are never looked at and
\* texts of at most one line stand for all.
UMTexts ==
    {[header |-> f.header, extra |-> f.extra, footer |-> f.footer, lines |-> ls] :
        f \in {g \in UMFrames : UMHeaderMatches(g) /\ UMSectionFound(g)},
        ls \in SeqsUpTo(UMLines, MaxLines)}
    \cup {[header |-> f.header, extra |-> f.extra, footer |-> f.footer, lines |-> ls] :
             f \in {g \in UMFrames : ~(UMHeaderMatches(g) /\ UMSectionFound(g))},
             ls \in {<<>>, <<UMRow(2, <<I(1)>>, "A", 10)>>}}

-----------------------------------------------------------------------------
(* UMTotalRuntimeParser.parse                                              *)

\* text.found: "Maximum Elapsed Wallclock Time:" followed by a [0-9.]+ token
\* (text.tok) occurs in the text.
UMTotalMetrics == <<"tmax">>

UMTotalOutcome(t) ==
    IF ~t.found THEN "ValueError"
    ELSE IF ~IsFloat(t.tok) THEN "ValueError"    \* float(...) raises
    ELSE "returned"

UMTotalParse ==
    /\ parser = "umtotal" /\ pc = "reading"
    /\ pc' = "done"
    /\ outcome' = UMTotalOutcome(text)
    /\ result' = IF UMTotalOutcome(text) = "returned"
                 THEN [region |-> <<"um_total_walltime">>,
                       tmax |-> <<Value("float", text.tok.n, "")>>]
                 ELSE result
    /\ UNCHANGED <<parser, hierarchical, has_hits, text, tree, stack, started, nread,
                   accepted>>
    /\ UNCHANGED otherVars

UMTotalTexts ==
    {[found |-> FALSE, tok |-> X("")]}
    \cup {[found |-> TRUE, tok |-> k] : k \in {F(5), I(5), D("1.2.3")}}

-----------------------------------------------------------------------------
(* CylcRoseManager.find_component_datasets (RAM3Profiling)                 *)
(*                                                                         *)
(* A job.out is taken as what each of the two known parsers sees of it;    *)
(* the key of a dataset is the place of its log in the glob (its task and  *)
(* cycle) with the name of the parser.                                     *)

MaxJobLogs == 2

KnownParsers == <<"UM_regions", "UM_total">>

JobOut(um, total) == [um |-> um, total |-> total]

UMText(header, footer, lines) ==
    [header |-> header, extra |-> 0, footer |-> footer, lines |-> lines]

JobOuts ==
    {\* the log of a task that is not a UM run
     JobOut(UMText(FALSE, "after", <<>>), [found |-> FALSE, tok |-> X("")]),
     \* the log of a UM run
     JobOut(UMText(TRUE, "after", <<UMRow(2, <<I(1)>>, "A", 10)>>),
            [found |-> TRUE, tok |-> F(5)]),
     \* a UM log without the wallclock line
     JobOut(UMText(TRUE, "after", <<UMRow(2, <<I(1)>>, "A", 10)>>),
            [found |-> FALSE, tok |-> X("")]),
     \* a UM log with a line in the section that is not a row
     JobOut(UMText(TRUE, "after", <<UMRow(2, <<I(1)>>, "A", 10),
                                    TextLine(2, <<W("g"), X("=")>>)>>),
            [found |-> TRUE, tok |-> F(5)]),
     \* a log with the footer phrase only before the header
     JobOut(UMText(TRUE, "before", <<>>), [found |-> TRUE, tok |-> F(5)])}

\* ProfilingLog(logfile, parser).parse()
LogParseOutcome(log, parser_name) ==
    IF parser_name = "UM_regions" THEN UMOutcome(log.um) ELSE UMTotalOutcome(log.total)

\* Variant of the handler that lets no exception of a parser through.
SkipsAnyException(out) == out # "returned"

\* except ValueError: pass
SkipsLog(out) == out = "ValueError"

\* The pairs of log and parser in the order of the two loops.
PairAt(k) ==
    <<((k - 1) \div Len(KnownParsers)) + 1,
      KnownParsers[((k - 1) % Len(KnownParsers)) + 1]>>

RECURSIVE FindFrom(_, _, _)
FindFrom(logs, k, st) ==
    IF k > Len(logs) * Len(KnownParsers) \/ st.outcome # "ok" THEN st
    ELSE LET pair == PairAt(k)
             out == LogParseOutcome(logs[pair[1]], pair[2])
             tried == [st EXCEPT !.trace = Append(st.trace, pair)]
         IN  FindFrom(logs, k + 1,
                 IF out = "returned" THEN [tried EXCEPT !.datasets = st.datasets \cup {pair}]
                 ELSE IF SkipsLog(out) THEN tried
                 ELSE [tried EXCEPT !.outcome = out])

FindComponentDatasets ==
    /\ parser = "discover" /\ pc = "reading"
    /\ LET end == FindFrom(text.logs, 1, [datasets |-> {}, trace |-> trace, outcome |-> "ok"])
       IN  /\ trace' = end.trace
           /\ data' = end.datasets
           /\ IF end.outcome # "ok" THEN Raise(end.outcome)
              ELSE IF end.datasets = {} THEN Raise("RuntimeError")
              ELSE Return
    /\ UNCHANGED <<parser, text, result, message, calls, experiments, fs>>
    /\ UNCHANGED esmfVars

DiscoverInputs == [experiments : {<<>>}, logs : SeqsUpTo(JobOuts, MaxJobLogs)]

-----------------------------------------------------------------------------
(* FMSProfilingParser.read                                                 *)

FMSLabels(hits) ==
    (IF hits THEN <<"hits">> ELSE <<>>)
    \o <<"tmin", "tmax", "tavg", "tstd", "tfrac", "grain", "pemin", "pemax">>
FMSMetrics(hits) ==
    (IF hits THEN <<"count">> ELSE <<>>)
    \o <<"tmin", "tmax", "tavg", "tstd", "tfrac", "grain", "pemin", "pemax">>

\* profile_line: a region without digits, then one [0-9.]+ group per label.
FMSPattern(hits) ==
    [lead |-> {}, leadws |-> FALSE, start |-> {"word"}, cont |-> {"word"},
     cols |-> [i \in 1..Len(FMSLabels(hits)) |-> NumberClasses]]

\* The header pattern is the column names joined by \s*: the names without
\* "hits" are also found inside a header line that starts with "hits".
FMSSectionFound(t, hits) ==
    /\ t.footer
    /\ \/ t.header = "hits"
       \/ t.header = "nohits" /\ ~hits

FMSSection(t) == NoIndentFirst(DropLeadingBlank(t.lines))

\* [val * 100 for val in stats[tfrac]]; a str times 100 is the str repeated.
Times100(v) == Value(v.ty, v.n * 100, v.w)

FMSStats(matches, hits) ==
    LET metrics == FMSMetrics(hits) IN
    [k \in {"region"} \cup {metrics[i] : i \in 1..Len(metrics)} |->
        [j \in 1..Len(matches) |->
            IF k = "region" THEN matches[j].region
            ELSE LET v == ConvertFromString(matches[j].vals[Index(metrics, k)]) IN
                 IF k = "tfrac" THEN Times100(v) ELSE v]]

FMSOutcome(t, hits) == IF FMSSectionFound(t, hits) THEN "returned" ELSE "ValueError"

FMSRead ==
    /\ parser = "fms" /\ pc = "reading"
    /\ pc' = "done"
    /\ outcome' = FMSOutcome(text, has_hits)
    /\ result' = IF FMSSectionFound(text, has_hits)
                 THEN FMSStats(FindIter(FMSSection(text), FMSPattern(has_hits)), has_hits)
                 ELSE result
    /\ UNCHANGED <<parser, hierarchical, has_hits, text, tree, stack, started, nread,
                   accepted>>
    /\ UNCHANGED otherVars

FMSCols(v, frac) == <<F(v), F(v + 2), F(v + 1), F(1), frac, I(1), I(0), I(3)>>

FMSLines ==
    { TextLine(0, <<W("A"), I(7)>> \o FMSCols(10, F(1))),      \* with the hits column
      TextLine(0, <<W("B"), I(8)>> \o FMSCols(20, F(2))),
      TextLine(0, <<W("A")>> \o FMSCols(10, F(1))),            \* without it
      TextLine(0, <<W("B"), I(8)>> \o FMSCols(20, D("1.2.3"))),
      TextLine(0, <<W("some"), W("words")>>),
      TextLine(1, <<W("MPP"), X("="), I(0)>>),
      TextLine(0, <<>>) }

FMSTexts ==
    {[header |-> h, footer |-> f, lines |-> ls] :
        h \in {"none", "hits", "nohits"}, f \in BOOLEAN, ls \in SeqsUpTo(FMSLines, MaxLines)}

-----------------------------------------------------------------------------
(* CICE5ProfilingParser.read                                               *)

CICE5Metrics == <<"min", "max", "mean">>

\* The text as a sequence of items: a "stanza" is a piece of text the timer
\* pattern matches (a Timer line followed by the three node statistics,
\* each a [\d.]+ token), anything else is not matched.
Stanza(region, mn, mx, mean) ==
    [kind |-> "stanza", region |-> region, min |-> mn, max |-> mx, mean |-> mean]
NotAStanza(kind) == [kind |-> kind, region |-> "", min |-> X(""), max |-> X(""), mean |-> X("")]

\* re.findall(pattern, stream)
RECURSIVE FindStanzas(_)
FindStanzas(items) ==
    IF Len(items) = 0 THEN <<>>
    ELSE (IF items[1].kind = "stanza" THEN <<items[1]>> ELSE <<>>) \o FindStanzas(Tail(items))

\* The first match one of whose values float() rejects, 0 if there is none.
FirstBadStanza(matches) ==
    LET bad == {j \in 1..Len(matches) :
                   ~(IsFloat(matches[j].min) /\ IsFloat(matches[j].max)
                     /\ IsFloat(matches[j].mean))}
    IN  IF bad = {} THEN 0 ELSE Smallest(bad)

CICE5Outcome(t) ==
    LET matches == FindStanzas(t) IN
    IF Len(matches) = 0 THEN "ValueError"
    ELSE IF FirstBadStanza(matches) # 0 THEN "ValueError"    \* raised by float()
    ELSE "returned"

CICE5Result(matches) ==
    [k \in {"region"} \cup {CICE5Metrics[i] : i \in 1..Len(CICE5Metrics)} |->
        [j \in 1..Len(matches) |->
            IF k = "region" THEN matches[j].region
            ELSE Value("float", matches[j][k].n, "")]]

CICE5Read ==
    /\ parser = "cice5" /\ pc = "reading"
    /\ pc' = "done"
    /\ outcome' = CICE5Outcome(text)
    /\ result' = IF CICE5Outcome(text) = "returned"
                 THEN CICE5Result(FindStanzas(text)) ELSE result
    /\ UNCHANGED <<parser, hierarchical, has_hits, text, tree, stack, started, nread,
                   accepted>>
    /\ UNCHANGED otherVars

CICE5Items ==
    { Stanza("Total", F(8), F(9), F(8)),
      Stanza("TimeLoop", F(7), F(8), F(7)),
      Stanza("Total", F(8), D("1.2.3"), F(8)),
      NotAStanza("timer_line_only"),
      NotAStanza("block_stats"),
      NotAStanza("noise") }

CICE5Texts == SeqsUpTo(CICE5Items, MaxLines)

-----------------------------------------------------------------------------
(* Cylc: _extract_timestamp, CylcProfilingParser.parse, CylcDBReader.parse *)

\* Time is counted in ticks; a timestamp may carry a fraction of a second.
TicksPerSecond == 2

\* The first token of a line (or a database field), as a timestamp:
\*   "none"   there is no token (the line is blank)
\*   "null"   the database field is NULL
\*   "bad"    a token datetime.fromisoformat rejects
\*   "naive"  date and time without offset, local time t
\*   "z"      date and time followed by Z, time t
\*   "offset" date and time followed by an offset off, local time t
Stamp(kind, t, off) == [kind |-> kind, t |-> t, off |-> off]

\* What _extract_timestamp does with it: the exception, or the datetime.
ExtractOutcome(st) ==
    CASE st.kind = "null" -> "AttributeError"     \* None has no split
      [] st.kind = "none" -> "IndexError"         \* line.split()[0]
      [] st.kind = "bad" -> "ValueError"
      [] OTHER -> "ok"

\* The datetime: aware (with its instant in UTC) or naive (local time only).
\* A trailing Z has been replaced by +00:00.
ExtractTimestamp(st) ==
    CASE st.kind = "z" -> [aware |-> TRUE, t |-> st.t]
      [] st.kind = "offset" -> [aware |-> TRUE, t |-> st.t - st.off]
      [] OTHER -> [aware |-> FALSE, t |-> st.t]

\* end - start: naive and aware datetimes cannot be subtracted.
CanSubtract(a, b) == a.aware = b.aware
Elapsed(a, b) == a.t - b.t

\* int(x / TicksPerSecond): truncation towards zero
TruncatedSeconds(ticks) ==
    IF ticks >= 0 THEN ticks \div TicksPerSecond ELSE -((-ticks) \div TicksPerSecond)

CylcMetrics == <<"tmax">>

\* A line of the log: its first token as a timestamp, and whether the line
\* contains DONE.
CylcOutcome(lines) ==
    IF Len(lines) = 0 THEN "IndexError"                 \* lines[0]
    ELSE LET first == lines[1]
             last == lines[Len(lines)]
         IN  IF ~last.done THEN "ValueError"
             ELSE IF ExtractOutcome(first.ts) # "ok" THEN "ValueError"
             ELSE IF ExtractOutcome(last.ts) # "ok" THEN "ValueError"
             ELSE IF ~CanSubtract(ExtractTimestamp(last.ts), ExtractTimestamp(first.ts))
                  THEN "TypeError"
             ELSE "returned"

\* The message of the ValueError parse raises itself; "" when it returns or
\* another exception escapes.
CylcMessage(lines) ==
    IF Len(lines) = 0 THEN ""
    ELSE IF ~lines[Len(lines)].done THEN "Cylc log is incomplete."
    ELSE IF ExtractOutcome(lines[1].ts) # "ok"
         THEN "First line of log doesn't contain a valid timestamp."
    ELSE IF ExtractOutcome(lines[Len(lines)].ts) # "ok"
         THEN "Last line of log doesn't contain a valid timestamp."
    ELSE ""

CylcElapsed(lines) ==
    TruncatedSeconds(Elapsed(ExtractTimestamp(lines[Len(lines)].ts),
                             ExtractTimestamp(lines[1].ts)))

CylcParse ==
    /\ parser = "cylc" /\ pc = "reading"
    /\ pc' = "done"
    /\ outcome' = CylcOutcome(text)
    /\ result' = IF CylcOutcome(text) = "returned"
                 THEN [region |-> <<"pipeline_elapsed_time">>,
                       tmax |-> <<Value("int", CylcElapsed(text), "")>>]
                 ELSE result
    /\ UNCHANGED <<parser, hierarchical, has_hits, text, tree, stack, started, nread,
                   accepted>>
    /\ UNCHANGED otherVars

Stamps ==
    {Stamp("bad", 0, 0), Stamp("naive", 0, 0), Stamp("naive", 4, 0),
     Stamp("z", 0, 0), Stamp("z", 3, 0), Stamp("offset", 4, 2)}

CylcLines ==
    {[ts |-> st, done |-> d] : st \in Stamps, d \in BOOLEAN}
    \cup {[ts |-> Stamp("none", 0, 0), done |-> FALSE]}

CylcTexts == SeqsUpTo(CylcLines, MaxLines)

\* --- CylcDBReader.parse ---

\* The database: whether it has the table task_jobs, whether the table has
\* all the required columns, and the rows of the table.
DBRowOutcome(row) ==
    IF ExtractOutcome(row.time_run_exit) # "ok" THEN ExtractOutcome(row.time_run_exit)
    ELSE IF ExtractOutcome(row.time_run) # "ok" THEN ExtractOutcome(row.time_run)
    ELSE IF ~CanSubtract(ExtractTimestamp(row.time_run_exit), ExtractTimestamp(row.time_run))
         THEN "TypeError"
    ELSE "ok"

\* Variant of the filter that keeps every row whose run_status is not 1.
RECURSIVE NotFailed(_)
NotFailed(rows) ==
    IF Len(rows) = 0 THEN <<>>
    ELSE (IF rows[1].run_status # "1" THEN <<rows[1]>> ELSE <<>>) \o NotFailed(Tail(rows))

\* The rows of tasks that completed successfully.
RECURSIVE Succeeded(_)
Succeeded(rows) ==
    IF Len(rows) = 0 THEN <<>>
    ELSE (IF rows[1].run_status = "0" THEN <<rows[1]>> ELSE <<>>) \o Succeeded(Tail(rows))

RequiredCols == {"cycle", "name", "time_run", "time_run_exit", "run_status"}
MissingCols(db) == RequiredCols \ db.columns

\* _test_file(file_path): the path must name an existing file.
TestFileOutcome(db) == IF db.exists THEN "ok" ELSE "FileNotFoundError"

\* Variant of the checks that accepts a table with any one required column.
TableInfoAnyColumn(db) ==
    IF ~db.table THEN "RuntimeError"
    ELSE IF RequiredCols \cap db.columns = {} THEN "RuntimeError"
    ELSE "ok"

\* The outcome of the two checks on PRAGMA table_info: an unknown table has
\* no columns at all.
TableInfoOutcome(db) ==
    IF ~db.table THEN "RuntimeError"
    ELSE IF MissingCols(db) # {} THEN "RuntimeError"
    ELSE "ok"

\* The outcome of the loop over the rows.
RowsOutcome(db) ==
    LET rows == Succeeded(db.rows)
        bad == {j \in 1..Len(rows) : DBRowOutcome(rows[j]) # "ok"}
    IN  IF bad # {} THEN DBRowOutcome(rows[Smallest(bad)]) ELSE "returned"

CylcDBOutcome(db) ==
    IF TestFileOutcome(db) # "ok" THEN TestFileOutcome(db)
    ELSE IF TableInfoOutcome(db) # "ok" THEN TableInfoOutcome(db)
    ELSE RowsOutcome(db)

CylcDBData(db) ==
    LET rows == Succeeded(db.rows) IN
    [region |-> [j \in 1..Len(rows) |-> rows[j].name \o "_cycle" \o rows[j].cycle],
     tmax |-> [j \in 1..Len(rows) |->
                  Frac(Elapsed(ExtractTimestamp(rows[j].time_run_exit),
                               ExtractTimestamp(rows[j].time_run)), TicksPerSecond)]]

\* What leaving the block of "with sqlite3.connect(dbpath) as con" does to
\* the connection: commit when the block ended normally, rollback when it
\* raised.  The connection is not closed by it.
WithExit(raised) == IF raised THEN <<"rollback">> ELSE <<"commit">>

\* Nothing in parse closes the connection: it is closed when the interpreter
\* finalises the object, which a reference-counting interpreter does as parse
\* returns and another one at some later collection.
FinalisedAtReturn == BOOLEAN

ConnectionOpened == \E i \in 1..Len(trace) : trace[i] = "connect"
ConnectionClosed == \E i \in 1..Len(calls) : calls[i] = "close"

\* parse in three steps: the test of the path and the connection, the query
\* of the table's columns with its two checks, and the query of the rows
\* with the loop over them.  trace holds the connection and the statements
\* executed on it, calls what happens to the connection afterwards.
CylcDBConnect ==
    /\ parser = "cylcdb" /\ pc = "reading"
    /\ IF TestFileOutcome(text) # "ok"
       THEN /\ Raise(TestFileOutcome(text))
            /\ UNCHANGED trace
       ELSE /\ pc' = "connected"
            /\ trace' = Append(trace, "connect")
            /\ UNCHANGED outcome
    /\ UNCHANGED <<parser, text, result, message>>
    /\ UNCHANGED esmfVars
    /\ UNCHANGED managerVars

CylcDBTableInfo ==
    /\ parser = "cylcdb" /\ pc = "connected"
    /\ trace' = Append(trace, "PRAGMA table_info")
    /\ IF TableInfoOutcome(text) # "ok"
       THEN /\ Raise(TableInfoOutcome(text))
            /\ message' = IF ~text.table THEN {"task_jobs"} ELSE MissingCols(text)
       ELSE /\ pc' = "checked"
            /\ UNCHANGED <<outcome, message>>
    /\ calls' = IF TableInfoOutcome(text) # "ok" THEN WithExit(TRUE) ELSE calls
    /\ UNCHANGED <<parser, text, result>>
    /\ UNCHANGED esmfVars
    /\ UNCHANGED <<experiments, data, fs>>

CylcDBSelect ==
    /\ parser = "cylcdb" /\ pc = "checked"
    /\ trace' = Append(trace, "SELECT")
    /\ pc' = "done"
    /\ outcome' = RowsOutcome(text)
    /\ result' = IF RowsOutcome(text) = "returned" THEN CylcDBData(text) ELSE result
    /\ \E finalised \in FinalisedAtReturn :
          calls' = WithExit(FALSE) \o
                   (IF finalised /\ RowsOutcome(text) = "returned"
                    THEN <<"close">> ELSE <<>>)
    /\ UNCHANGED <<parser, text, message>>
    /\ UNCHANGED esmfVars
    /\ UNCHANGED <<experiments, data, fs>>

\* After the call: the interpreter finalises the connection that parse left
\* open (the local variable con is the only reference to it).
CylcDBFinalise ==
    /\ parser = "cylcdb" /\ pc = "done"
    /\ ConnectionOpened /\ ~ConnectionClosed
    /\ calls' = Append(calls, "close")
    /\ UNCHANGED <<parser, text, pc, outcome, result, message, trace>>
    /\ UNCHANGED esmfVars
    /\ UNCHANGED <<experiments, data, fs>>

DBRow(name, status, start, end) ==
    [name |-> name, cycle |-> "1", time_run |-> start, time_run_exit |-> end,
     run_status |-> status]

DBRows ==
    {DBRow(n, "0", Stamp("z", 0, 0), Stamp("z", 3, 0)) : n \in {"a", "b"}}
    \cup {DBRow("a", st, Stamp("z", 0, 0), Stamp("z", 3, 0)) : st \in {"1", "NULL"}}
    \cup {DBRow("a", "0", Stamp("z", 0, 0), Stamp("naive", 4, 0)),
          DBRow("a", "0", Stamp("z", 0, 0), Stamp("bad", 0, 0)),
          DBRow("a", "1", Stamp("z", 0, 0), Stamp("null", 0, 0))}

CylcDBs ==
    {[exists |-> TRUE, table |-> TRUE, columns |-> cs, rows |-> rs] :
        cs \in {RequiredCols, RequiredCols \cup {"submit_num"}},
        rs \in SeqsUpTo(DBRows, MaxLines)}
    \cup {[exists |-> TRUE, table |-> TRUE, columns |-> cs, rows |-> <<>>] :
             cs \in {RequiredCols \ {"run_status"}, RequiredCols \ {"cycle", "name"},
                     {"col0", "col1"}}}
    \cup {[exists |-> e, table |-> FALSE, columns |-> {}, rows |-> <<>>] : e \in BOOLEAN}

-----------------------------------------------------------------------------
(* Properties of the ESMF parser                                           *)

FlatRun == parser = "esmf" /\ ~hierarchical
HierRun == parser = "esmf" /\ hierarchical

\* The accepted lines that name region r / those of them that were applied.
Occurrences(r) == {j \in 1..Len(accepted) : accepted[j].region = r}
Applied(r) == {j \in Occurrences(r) : accepted[j].ok}
FirstOf(S) == CHOOSE j \in S : \A k \in S : j <= k
Labels == {accepted[j].region : j \in 1..Len(accepted)}

RECURSIVE SumCounts(_)
SumCounts(S) ==
    IF S = {} THEN 0
    ELSE LET j == CHOOSE k \in S : TRUE
         IN  accepted[j].sd.count + SumCounts(S \ {j})

RECURSIVE SumWeighted(_)
SumWeighted(S) ==
    IF S = {} THEN 0
    ELSE LET j == CHOOSE k \in S : TRUE
         IN  accepted[j].sd.count * accepted[j].sd.tavg[1] + SumWeighted(S \ {j})

\* Occurrence j agrees with the stored entry of its region (that of the first
\* occurrence) on PETs and on PEs, and its own PETs equal its PEs.
PassesPECheck(j) ==
    LET first == accepted[FirstOf(Occurrences(accepted[j].region))].sd
        sd == accepted[j].sd
    IN  sd.PETs = first.PETs /\ sd.PEs = first.PEs /\ sd.PETs = sd.PEs

EntriesOf(r) == {i \in 1..Len(result["region"]) : result["region"][i] = r}

\* The entry of region r holds the sum of the counts and the count-weighted
\* mean of the averages of the occurrences in S.
AggregateOf(r, S) ==
    /\ Cardinality(EntriesOf(r)) = 1
    /\ LET idx == CHOOSE i \in EntriesOf(r) : TRUE IN
        /\ result["count"][idx] = SumCounts(S)
        /\ SumCounts(S) # 0
        /\ FracEq(result["tavg"][idx], Frac(SumWeighted(S), SumCounts(S)))

\* C3: in flat mode, k >= 2 accepted lines with the same region label that all
\* pass the PE-agreement check leave exactly one entry for that label, whose
\* count is the sum of the k counts and whose average time is the
\* count-weighted mean of the k averages.
C3_WeightedMeanOfAllOccurrences ==
    (FlatRun /\ outcome # "NotImplementedError") =>
        \A r \in Labels :
            (Cardinality(Occurrences(r)) >= 2 /\ \A j \in Occurrences(r) : PassesPECheck(j))
                => AggregateOf(r, Occurrences(r))

\* The same statement for the runs in which every merge had a non-zero
\* combined count: there the aggregate is the weighted mean of the occurrences.
WeightedMeanWhenDefined ==
    (FlatRun /\ outcome \in {"running", "returned"}) =>
        \A r \in Labels :
            Cardinality(Occurrences(r)) >= 2 => AggregateOf(r, Occurrences(r))

\* C4: in flat mode a line whose label is already present is merged only when
\* its PETs equal the stored PETs, its PEs equal the stored PEs and its PETs
\* equal its PEs; otherwise read raises NotImplementedError at that line, the
\* entry keeps what the earlier occurrences gave it, and nothing is returned.
C4_MergeOnlyWhenPEsAgree ==
    FlatRun =>
        \A j \in 1..Len(accepted) :
            LET r == accepted[j].region IN
            j # FirstOf(Occurrences(r)) =>
                /\ accepted[j].ok => PassesPECheck(j)
                /\ ~PassesPECheck(j) =>
                    /\ ~accepted[j].ok
                    /\ j = Len(accepted)
                    /\ pc = "done" /\ outcome = "NotImplementedError"
                    /\ \A i \in EntriesOf(r) :
                           result["count"][i] = SumCounts(Applied(r))

C4_Witness ==
    /\ FlatRun /\ outcome = "NotImplementedError"
    /\ \E j \in 2..Len(accepted) :
        /\ j # FirstOf(Occurrences(accepted[j].region))
        /\ accepted[j].sd.PETs = accepted[FirstOf(Occurrences(accepted[j].region))].sd.PETs
        /\ accepted[j].sd.PEs = accepted[FirstOf(Occurrences(accepted[j].region))].sd.PEs
        /\ accepted[j].sd.PETs # accepted[j].sd.PEs

\* The smallest tmin / largest tmax among the occurrences in S, and the
\* earliest occurrence that reported it.
MinTime(S) == CHOOSE t \in {accepted[j].sd.tmin : j \in S} :
                  \A j \in S : t <= accepted[j].sd.tmin
MaxTime(S) == CHOOSE t \in {accepted[j].sd.tmax : j \in S} :
                  \A j \in S : t >= accepted[j].sd.tmax
MinSupplier(S) == FirstOf({j \in S : accepted[j].sd.tmin = MinTime(S)})
MaxSupplier(S) == FirstOf({j \in S : accepted[j].sd.tmax = MaxTime(S)})

\* C5: in flat mode the minimum time of an entry is the smallest minimum among
\* the occurrences merged into it and its minimum PE is the one reported by
\* the earliest occurrence with that minimum; likewise for the maximum.
C5_MinMaxWithTheirPE ==
    FlatRun =>
        \A r \in Labels : \A i \in EntriesOf(r) :
            LET S == Applied(r) IN
            /\ result["tmin"][i] = MinTime(S)
            /\ result["pemin"][i] = accepted[MinSupplier(S)].sd.pemin
            /\ result["tmax"][i] = MaxTime(S)
            /\ result["pemax"][i] = accepted[MaxSupplier(S)].sd.pemax

C5_Witness ==
    /\ FlatRun /\ outcome = "returned"
    /\ \E r \in Labels :
        /\ Cardinality(Applied(r)) = 3
        /\ LET S == Applied(r) IN
            /\ MinSupplier(S) = 2
            /\ accepted[3].sd.tmin = MinTime(S)
            /\ accepted[3].sd.pemin # accepted[2].sd.pemin
            /\ MaxSupplier(S) = 1
            /\ accepted[2].sd.tmax = MaxTime(S)
            /\ accepted[2].sd.pemax # accepted[1].sd.pemax

\* The node of the nearest earlier accepted line whose indentation depth is
\* smaller than that of line j; the root when there is none.
Depth(j) == accepted[j].indent \div 2
Shallower(j) == {i \in 1..(j - 1) : Depth(i) < Depth(j)}
NearestShallower(j) == CHOOSE i \in Shallower(j) : \A k \in Shallower(j) : k <= i
ParentNode(j) == IF Shallower(j) = {} THEN <<>> ELSE accepted[NearestShallower(j)].node

\* C6: in hierarchical mode each accepted line is stored as a child of the
\* nearest preceding accepted line whose indentation depth (leading whitespace
\* characters integer-divided by 2) is strictly smaller than its own, or
\* directly under the root when there is no such line.
C6_ChildOfNearestShallowerLine ==
    HierRun =>
        \A j \in 1..Len(accepted) :
            accepted[j].node = Append(ParentNode(j), accepted[j].region)

-----------------------------------------------------------------------------
(* Properties of the flat results of all parsers                           *)

\* The metrics the parser called declares (its `metrics` property).
DeclaredMetrics ==
    CASE parser = "esmf" -> ESMFMetrics
      [] parser = "um" -> UMMetrics
      [] parser = "umtotal" -> UMTotalMetrics
      [] parser = "fms" -> FMSMetrics(has_hits)
      [] parser = "cice5" -> CICE5Metrics
      [] OTHER -> CylcMetrics

\* The components that are one call of one parser.
Parsers == {"esmf", "um", "umtotal", "fms", "cice5", "cylc", "cylcdb"}

FlatReturned == parser \in Parsers /\ ~HierRun /\ outcome = "returned"

\* C1: the result of every flat parser holds a list for every declared metric
\* and each list is exactly as long as result["region"]; in ESMF flat mode
\* this holds after every processed line, merged lines included.
C1_MetricListsAsLongAsRegion ==
    (FlatRun \/ FlatReturned) =>
        /\ DOMAIN result = {"region"} \cup {DeclaredMetrics[i] : i \in 1..Len(DeclaredMetrics)}
        /\ \A k \in DOMAIN result : Len(result[k]) = Len(result["region"])

\* An ESMF flat run in the middle of its stream, after a line has been merged
\* into a region that is not the only one.
C1_Witness ==
    /\ FlatRun /\ pc = "reading"
    /\ Len(result["region"]) >= 2
    /\ \E r \in Labels : Cardinality(Applied(r)) >= 2

\* The input holds nothing the parser called recognises as profiling data.
NoRecognizableData ==
    CASE parser = "esmf" -> Len(accepted) = 0
      [] parser = "um" ->
            UMHeaderMatches(text) /\ UMSectionFound(text)
            /\ FindIter(UMSection(text), UMPattern) = <<>>
      [] parser = "umtotal" -> ~text.found
      [] parser = "fms" ->
            \/ text.header = "none"
            \/ FMSSectionFound(text, has_hits)
               /\ FindIter(FMSSection(text), FMSPattern(has_hits)) = <<>>
      [] parser = "cice5" -> FindStanzas(text) = <<>>
      [] parser = "cylc" -> Len(text) = 0
      [] parser = "cylcdb" ->
            text.exists /\ TableInfoOutcome(text) = "ok" /\ Succeeded(text.rows) = <<>>
      [] OTHER -> FALSE

\* C2: for every parser an input without recognisable profiling data makes
\* the call raise ValueError, and no parser returns a result whose region
\* list is empty.
C2_NoDataRaisesValueError ==
    pc = "done" =>
        /\ NoRecognizableData => outcome = "ValueError"
        /\ FlatReturned => Len(result["region"]) > 0
        /\ (HierRun /\ outcome = "returned") => DOMAIN tree # {}

\* C7: in the result returned by a flat parser the region labels are pairwise
\* distinct.
C7_RegionLabelsDistinct ==
    FlatReturned =>
        \A i, j \in 1..Len(result["region"]) :
            i # j => result["region"][i] # result["region"][j]

-----------------------------------------------------------------------------
(* Properties of the UM parser                                             *)

\* The UM call got as far as the row check: header, footer and section found.
UMChecked == parser = "um" /\ pc = "done" /\ UMHeaderMatches(text) /\ UMSectionFound(text)

\* The match of the row pattern on the line alone.
MatchAlone(line) == MatchAt(<<line>>, Flatten(<<line>>, 1), UMPattern, 1)

Rows(t) == {l \in 1..Len(t.lines) : ~IsBlank(t.lines[l])}
WithLeadingColumn(t, odd, tok) ==
    [t EXCEPT !.extra = @ + 1,
              !.lines = [l \in 1..Len(t.lines) |->
                            IF l \in odd
                            THEN TextLine(t.lines[l].indent, <<tok>> \o t.lines[l].toks)
                            ELSE IF l \in Rows(t)
                            THEN TextLine(t.lines[l].indent, <<I(7)>> \o t.lines[l].toks)
                            ELSE t.lines[l]]]

\* C9: a table with an extra leading integer on every row (and an extra
\* leading column name) gives the same regions and values as the table
\* without it; with an extra leading float or non-numeric string on any row
\* parse raises AssertionError.
C9_ExtraLeadingColumn ==
    (parser = "um" /\ pc = "done" /\ outcome = "returned") =>
        /\ UMOutcome(WithLeadingColumn(text, {}, I(7))) = "returned"
        /\ UMResult(WithLeadingColumn(text, {}, I(7))) = result
        /\ \A l \in Rows(text) : \A tok \in {F(7), W("x")} :
              UMOutcome(WithLeadingColumn(text, {l}, tok)) = "AssertionError"

-----------------------------------------------------------------------------
(* Properties of the Cylc log parser                                       *)

ValidStamp(st) == st.kind \in {"naive", "z", "offset"}

\* C10: on a log whose first line starts with a valid timestamp and whose last
\* line starts with a valid timestamp and contains DONE, parse returns the one
\* region pipeline_elapsed_time with the seconds between the two timestamps
\* truncated to an integer, whatever the lines in between.
C10_ElapsedSecondsTruncated ==
    (/\ parser = "cylc" /\ pc = "done" /\ Len(text) >= 1
     /\ ValidStamp(text[1].ts) /\ ValidStamp(text[Len(text)].ts)
     /\ text[Len(text)].done)
    => /\ outcome = "returned"
       /\ result["region"] = <<"pipeline_elapsed_time">>
       /\ result["tmax"] = <<Value("int", CylcElapsed(text), "")>>

\* C11: for every log content parse either returns the one-region result or
\* raises ValueError, never another exception; it raises ValueError when the
\* last line lacks DONE, or the first or the last line has no valid leading
\* timestamp, an empty log included, with the message of the first failing
\* check in the order completion marker, first line, last line.
C11_ReturnsOrValueError ==
    (parser = "cylc" /\ pc = "done") =>
        LET noMarker == Len(text) = 0 \/ ~text[Len(text)].done
            noFirst == Len(text) = 0 \/ ~ValidStamp(text[1].ts)
            noLast == Len(text) = 0 \/ ~ValidStamp(text[Len(text)].ts)
        IN  /\ outcome \in {"returned", "ValueError"}
            /\ (noMarker \/ noFirst \/ noLast) => outcome = "ValueError"
            /\ noMarker => CylcMessage(text) = "Cylc log is incomplete."
            /\ (~noMarker /\ noFirst)
                  => CylcMessage(text) = "First line of log doesn't contain a valid timestamp."
            /\ (~noMarker /\ ~noFirst /\ noLast)
                  => CylcMessage(text) = "Last line of log doesn't contain a valid timestamp."

-----------------------------------------------------------------------------
(* Properties of the Cylc database reader                                  *)

\* The call got as far as reading the rows of the table.
DBRowsRead ==
    parser = "cylcdb" /\ pc = "done" /\ text.exists /\ TableInfoOutcome(text) = "ok"

\* The positions in the table of the rows with run_status 0, and the k-th of
\* them in table order.
SucceededAt(rows) == {i \in 1..Len(rows) : rows[i].run_status = "0"}
RECURSIVE NthOf(_, _)
NthOf(S, k) == IF k = 1 THEN Smallest(S) ELSE NthOf(S \ {Smallest(S)}, k - 1)

\* The instant a timestamp denotes (its local time when it carries no offset).
Instant(st) == IF st.kind = "offset" THEN st.t - st.off ELSE st.t
SameKind(a, b) == (a.kind = "naive") = (b.kind = "naive")

\* C12: the reader returns exactly one region per row of task_jobs whose
\* run_status is 0, in table order, labelled name + "_cycle" + cycle and
\* valued time_run_exit - time_run in seconds; the rows with another
\* run_status (or NULL) contribute nothing and do not change the outcome,
\* wherever they stand and whatever they hold.
C12_OneRegionPerSucceededRow ==
    DBRowsRead =>
        LET rows == text.rows
            at == SucceededAt(rows)
            n == Cardinality(at)
        IN  /\ outcome = "returned" =>
                /\ Len(result["region"]) = n /\ Len(result["tmax"]) = n
                /\ \A k \in 1..n :
                    LET row == rows[NthOf(at, k)] IN
                    /\ result["region"][k] = row.name \o "_cycle" \o row.cycle
                    /\ FracEq(result["tmax"][k],
                              Frac(Instant(row.time_run_exit) - Instant(row.time_run),
                                   TicksPerSecond))
            /\ (\A i \in at : /\ ValidStamp(rows[i].time_run)
                              /\ ValidStamp(rows[i].time_run_exit)
                              /\ SameKind(rows[i].time_run, rows[i].time_run_exit))
                  => outcome = "returned"

\* A table with a row that did not succeed between two rows that did.
C12_Witness ==
    /\ DBRowsRead /\ outcome = "returned"
    /\ Len(text.rows) = 3
    /\ text.rows[1].run_status = "0" /\ text.rows[2].run_status # "0"
    /\ text.rows[3].run_status = "0"
    /\ Len(result["region"]) = 2

\* C13: CylcDBReader.parse checks in a fixed order.  A path that names no
\* file raises FileNotFoundError before any connection or query; otherwise a
\* store without the task_jobs table raises RuntimeError; otherwise a table
\* lacking a required column raises RuntimeError naming the missing columns;
\* and the rows are selected only after all three checks have passed.
C13_ChecksInFixedOrder ==
    parser = "cylcdb" =>
        /\ ~text.exists =>
              /\ trace = <<>>
              /\ pc = "done" => outcome = "FileNotFoundError"
        /\ text.exists /\ ~text.table /\ pc = "done" =>
              /\ outcome = "RuntimeError" /\ message = {"task_jobs"}
              /\ trace = <<"connect", "PRAGMA table_info">>
        /\ text.exists /\ text.table /\ ~(RequiredCols \subseteq text.columns)
              /\ pc = "done" =>
              /\ outcome = "RuntimeError"
              /\ message = {c \in RequiredCols : c \notin text.columns}
              /\ trace = <<"connect", "PRAGMA table_info">>
        /\ (\E i \in 1..Len(trace) : trace[i] = "SELECT") =>
              /\ text.exists /\ text.table /\ RequiredCols \subseteq text.columns
              /\ trace = <<"connect", "PRAGMA table_info", "SELECT">>
        /\ text.exists /\ text.table /\ RequiredCols \subseteq text.columns
              /\ pc = "done" =>
              trace = <<"connect", "PRAGMA table_info", "SELECT">>

\* A table that lacks two of the required columns is refused before its rows
\* are selected.
C13_Witness ==
    /\ parser = "cylcdb" /\ pc = "done"
    /\ text.exists /\ text.table
    /\ text.columns = RequiredCols \ {"cycle", "name"}
    /\ outcome = "RuntimeError" /\ message = {"cycle", "name"}
    /\ trace = <<"connect", "PRAGMA table_info">>

-----------------------------------------------------------------------------
(* Calls on a shared instance                                              *)

CallDone(t) == parser = "shared" /\ calls[t].outcome # "running"

-----------------------------------------------------------------------------
(* ProfilingExperiment.archive                                             *)

\* The call was made on an experiment that is not DONE, or with a
\* destination whose archive file was there already.
ArchiveRefused ==
    /\ parser = "archive"
    /\ \/ text.experiment.status # "DONE"
       \/ WithSuffixTarGz(text.archive_path) \in text.present

Opened == \E i \in 1..Len(trace) : trace[i] = "open"

\* C15: archive has no effect unless the experiment is DONE and the
\* destination archive file does not exist.  For NEW, RUNNING and ARCHIVED
\* it gives one warning, raises nothing and opens no tar file; for DONE with
\* the archive file present it raises FileExistsError without opening a tar
\* file; status, path and the files stay as they were.
C15_NoEffectUnlessDoneAndFree ==
    ArchiveRefused =>
        /\ experiments = <<text.experiment>>
        /\ fs = text.present
        /\ ~Opened
        /\ pc = "done" =>
              IF text.experiment.status # "DONE"
              THEN outcome = "returned" /\ trace = <<"warn">>
              ELSE outcome = "FileExistsError" /\ trace = <<>>

\* A DONE experiment whose archive file exists although the destination was
\* given with another suffix.
C15_Witness ==
    /\ ArchiveRefused /\ pc = "done"
    /\ text.experiment.status = "DONE"
    /\ text.archive_path = <<"exp1", "v2">>
    /\ text.present = {<<"exp1", "tar", "gz">>}
    /\ outcome = "FileExistsError"

\* The names the walk adds to the tar file when nothing fails.
RECURSIVE Included(_)
Included(files) ==
    IF Len(files) = 0 THEN <<>>
    ELSE (IF files[1].excluded THEN <<>> ELSE <<files[1].name>>) \o Included(Tail(files))

\* The walk meets the failure: a file that is not excluded is the failing one.
WalkFails ==
    /\ text.fails_at \in 1..Len(text.files)
    /\ ~text.files[text.fails_at].excluded

\* C16: archive on a DONE experiment with a free destination ends with
\* status ARCHIVED and with the path of the archive file, the destination
\* with its suffix made .tar.gz; the two fields change only once the tar
\* file has been written completely and closed, and a failure while the
\* files are added leaves the status DONE and the path as it was.
C16_ArchivedOnlyWhenTarComplete ==
    (parser = "archive" /\ ~ArchiveRefused) =>
        LET e == experiments[1]
            archive_file == WithSuffixTarGz(text.archive_path)
        IN  /\ (pc = "done" /\ ~WalkFails) =>
                  /\ outcome = "returned"
                  /\ e.status = "ARCHIVED" /\ e.path = archive_file
                  /\ Len(e.path) >= 3 /\ SubSeq(e.path, Len(e.path) - 1, Len(e.path)) = <<"tar", "gz">>
            /\ e # text.experiment =>
                  /\ pc = "done"
                  /\ trace = <<"open">> \o Included(text.files) \o <<"close">>
            /\ (pc = "done" /\ WalkFails) =>
                  /\ outcome = "OSError"
                  /\ e = text.experiment
                  /\ trace[Len(trace)] = "fail"

\* The second of two files could not be added: the first is in the tar
\* file and the experiment is still DONE.
C16_Witness ==
    /\ parser = "archive" /\ ~ArchiveRefused /\ pc = "done"
    /\ WalkFails /\ text.fails_at = 2
    /\ trace = <<"open", "config.yaml", "fail">>
    /\ experiments[1].status = "DONE"

-----------------------------------------------------------------------------
(* PayuManager.run_experiments                                             *)

\* The positions in the dict of the experiments that had status st when the
\* call started.
StartedAs(st) == {i \in 1..Len(text.experiments) : text.experiments[i].status = st}

\* C17: run_experiments submits to the runner exactly the experiments that
\* are NEW when the call starts, in the order of the dict, each with the
\* manager's nruns and startfrom_restart; the runner is invoked once when
\* there is such an experiment and not at all otherwise; when the call
\* returns no experiment is NEW or RUNNING, and those that were DONE or
\* ARCHIVED have kept their status.
C17_SubmitsTheNewExperiments ==
    (parser = "run" /\ pc = "done") =>
        LET new == StartedAs("NEW")
            n == Cardinality(new)
        IN  /\ IF n = 0 THEN trace = <<>>
               ELSE /\ Len(trace) = 1
                    /\ Len(trace[1].running_branches) = n
                    /\ Len(trace[1].nruns) = n
                    /\ Len(trace[1].startfrom_restart) = n
                    /\ \A k \in 1..n :
                          /\ trace[1].running_branches[k]
                                = text.experiments[NthOf(new, k)].name
                          /\ trace[1].nruns[k] = text.nruns
                          /\ trace[1].startfrom_restart[k] = text.startfrom_restart
            /\ outcome = "returned" =>
                  /\ Len(experiments) = Len(text.experiments)
                  /\ \A i \in 1..Len(experiments) :
                        /\ experiments[i].name = text.experiments[i].name
                        /\ experiments[i].status \notin {"NEW", "RUNNING"}
                        /\ text.experiments[i].status \in {"DONE", "ARCHIVED"} =>
                              experiments[i] = text.experiments[i]

\* A RUNNING experiment between two NEW ones: the two are submitted in the
\* order of the dict.
C17_Witness ==
    /\ parser = "run" /\ pc = "done" /\ outcome = "returned"
    /\ Len(trace) = 1
    /\ \E i, j \in StartedAs("NEW") : i < j
    /\ StartedAs("RUNNING") # {}
    /\ text.nruns = 2

-----------------------------------------------------------------------------
(* ProfilingManager.parse_profiling_data                                   *)

\* What the call did about the experiment named n.
EventsOf(n) == {i \in 1..Len(trace) : trace[i][2] = n}

\* C18: parse_profiling_data discards the data parsed before, and when it
\* returns manager.data has an entry for exactly the experiments that are
\* DONE or ARCHIVED; an experiment that is NEW or RUNNING is skipped with a
\* warning, has no entry, and none of its logs is read.
C18_DataForCompletedExperimentsOnly ==
    (parser = "parse" /\ pc = "done") =>
        /\ \A n \in DOMAIN data : "stale_log" \notin data[n]
        /\ "removed" \notin DOMAIN data
        /\ outcome = "returned" =>
              /\ DOMAIN data = {experiments[i].name : i \in StartedAs("DONE") \cup StartedAs("ARCHIVED")}
              /\ \A i \in StartedAs("NEW") \cup StartedAs("RUNNING") :
                    LET n == experiments[i].name IN
                    /\ n \notin DOMAIN data
                    /\ Cardinality(EventsOf(n)) = 1
                    /\ \A k \in EventsOf(n) : trace[k][1] = "warning"
        /\ \A i \in StartedAs("NEW") \cup StartedAs("RUNNING") :
              \A k \in EventsOf(experiments[i].name) : trace[k][1] = "warning"

\* An earlier call left data of branch1; now branch1 is RUNNING and stands
\* between an ARCHIVED and a DONE experiment whose logs are parsed.
C18_Witness ==
    /\ parser = "parse" /\ pc = "done" /\ outcome = "returned"
    /\ "branch1" \in DOMAIN text.previous
    /\ Len(experiments) = 3
    /\ experiments[1].status = "ARCHIVED"
    /\ experiments[2].name = "branch1" /\ experiments[2].status = "RUNNING"
    /\ experiments[3].status = "DONE"
    /\ Len(text.logs) = 3
    /\ Cardinality(DOMAIN data) = 2
    /\ \A n \in DOMAIN data : data[n] = {"log", "optional_log"}

-----------------------------------------------------------------------------
(* PayuManager.generate_scaling_experiments                                *)

\* All the layouts of the call, node count after node count.
RECURSIVE AllLayouts(_)
AllLayouts(lists) == IF Len(lists) = 0 THEN <<>> ELSE lists[1] \o AllLayouts(Tail(lists))

\* The positions where a layout key appears for the first time.
FirstAppearances(ls) ==
    {i \in 1..Len(ls) : \A j \in 1..(i - 1) : ls[j].key # ls[i].key}

EventsNamed(kind) == {i \in 1..Len(trace) : trace[i][1] = kind}

\* C19: generate_scaling_experiments makes one perturbation experiment for
\* each distinct layout key of the whole list of node counts, numbered
\* Experiment_1 to Experiment_n in the order in which the keys first
\* appear; each is registered in manager.experiments with status NEW; a node
\* count without layouts is skipped; and the generator runs exactly once,
\* after all the registrations.
C19_OneExperimentPerLayoutKey ==
    (parser = "generate" /\ pc = "done") =>
        LET ls == AllLayouts(text.layouts)
            first == FirstAppearances(ls)
            n == Cardinality(first)
            blocks == trace[Len(trace)][2]
        IN  /\ EventsNamed("generate") = {Len(trace)}
            /\ Len(blocks) = n
            /\ \A k \in 1..n : blocks[k] = ls[NthOf(first, k)]
            /\ Cardinality(EventsNamed("register")) = n
            /\ \A k \in 1..n :
                  \E i \in 1..Len(experiments) :
                      /\ experiments[i].name = blocks[k].branch
                      /\ experiments[i].status = "NEW"
            /\ Cardinality(EventsNamed("warning"))
                  = Cardinality({c \in 1..Len(text.layouts) : Len(text.layouts[c]) = 0})
            /\ outcome = "returned"

\* The second node count gives a layout whose key the first one gave
\* already, after a layout that is new.
C19_Witness ==
    /\ parser = "generate" /\ pc = "done"
    /\ text.layouts = <<<<Layout("k1", "pert1"), Layout("k2", "pert2")>>,
                        <<Layout("k3", "pert3"), Layout("k1", "pert4")>>>>
    /\ Len(trace[Len(trace)][2]) = 3
    /\ text.experiments = <<>>
    /\ Len(experiments) = 3

-----------------------------------------------------------------------------
(* CylcRoseManager.find_component_datasets                                 *)

AllPairs == {PairAt(k) : k \in 1..(Len(text.logs) * Len(KnownParsers))}
ParsedPairs == {pr \in AllPairs : LogParseOutcome(text.logs[pr[1]], pr[2]) = "returned"}

\* C20: find_component_datasets tries every known parser on every job.out;
\* a parser that does not recognise a log never aborts the discovery, the
\* pair of log and parser is just left out of the result; and RuntimeError
\* is raised exactly when no pair parsed.
C20_UnrecognisedLogNeverAborts ==
    (parser = "discover" /\ pc = "done") =>
        /\ {trace[i] : i \in 1..Len(trace)} = AllPairs
        /\ outcome \in {"returned", "RuntimeError"}
        /\ data = ParsedPairs
        /\ outcome = "RuntimeError" <=> ParsedPairs = {}

-----------------------------------------------------------------------------
(* ESMF hierarchical mode: repeated labels                                 *)

\* The accepted lines stored at the node, and the last of them.
StoredAt(node) == {j \in 1..Len(accepted) : accepted[j].node = node}
LastStoredAt(node) == Largest(StoredAt(node))

\* C22: in hierarchical mode a label that occurs again under the same
\* parent reuses the node it has: the eight metric values become those of
\* the later occurrence (nothing is aggregated and nothing is raised, also
\* when PETs or PEs differ), the children the node has are kept, and deeper
\* lines that follow attach to that node.
C22_RepeatedLabelReusesNode ==
    HierRun =>
        /\ DOMAIN tree = {accepted[j].node : j \in 1..Len(accepted)}
        /\ \A node \in DOMAIN tree : tree[node] = accepted[LastStoredAt(node)].sd
        /\ outcome \in {"running", "returned", "ValueError"}
        /\ \A j \in 2..Len(accepted) :
              Depth(j) > Depth(j - 1) =>
                  accepted[j].node = Append(accepted[j - 1].node, accepted[j].region)

\* A comes with a child B and comes again with other PETs; then B comes
\* again below it.
C22_Witness ==
    /\ HierRun /\ Len(accepted) >= 3
    /\ accepted[1].node = <<"A">> /\ accepted[2].node = <<"A", "B">>
    /\ accepted[3].node = <<"A">> /\ accepted[3].sd.PETs # accepted[1].sd.PETs
    /\ tree[<<"A">>] = accepted[3].sd
    /\ <<"A", "B">> \in DOMAIN tree

-----------------------------------------------------------------------------
(* ESMF hierarchical mode: the top-level keys                              *)

TopLevelKeys == {node[1] : node \in {q \in DOMAIN tree : Len(q) = 1}}

\* The accepted lines that no earlier accepted line of strictly smaller
\* depth precedes, the depth being the one read gave the line (level).
Outermost == {j \in 1..Len(accepted) :
                 \A i \in 1..(j - 1) : accepted[i].level >= accepted[j].level}

\* C23 as stated: in hierarchical mode the top-level keys of the returned tree
\* are exactly the region labels of the accepted lines whose indentation depth
\* (leading whitespace characters integer-divided by 2) is 0.
C23_TopLevelKeysAreDepthZeroLabels ==
    HierRun /\ pc = "done" /\ outcome = "returned" =>
        TopLevelKeys = {accepted[j].region :
                           j \in {i \in 1..Len(accepted) : Depth(i) = 0}}

\* C23, amended: in hierarchical mode the top-level keys of the returned tree
\* are exactly the region labels of the accepted lines that no earlier accepted
\* line of strictly smaller depth precedes, where the depth of a line is its
\* leading whitespace in the stripped stream integer-divided by 2 (so the
\* first line of the stripped stream has depth 0).
C23_TopLevelKeysAreOutermostLabels ==
    HierRun /\ pc = "done" /\ outcome = "returned" =>
        /\ TopLevelKeys = {accepted[j].region : j \in Outermost}
        /\ \A j \in 1..Len(accepted) :
              \/ accepted[j].level = Depth(j)
              \/ j = 1 /\ accepted[j].level = 0

\* A skipped heading line, then a region indented by two characters with a
\* child: the region of depth 1 is the only top-level key.
C23_Witness ==
    /\ HierRun /\ pc = "done" /\ outcome = "returned"
    /\ nread = 3 /\ Len(accepted) = 2
    /\ accepted[1].level = 1 /\ accepted[1].indent = 2
    /\ accepted[2].level = 2
    /\ TopLevelKeys = {accepted[1].region}
    /\ accepted[2].node = <<accepted[1].region, accepted[2].region>>

-----------------------------------------------------------------------------
(* CylcDBReader.parse: the statements and the connection                   *)

Statements == {trace[i] : i \in 1..Len(trace)} \ {"connect"}
TimesIn(seq, x) == Cardinality({i \in 1..Len(seq) : seq[i] = x})

\* C24: CylcDBReader.parse executes only read statements against the store
\* (one table_info query and one SELECT), and the connection it opens is
\* closed by the time parse has returned or raised, on every path: success,
\* missing table, missing columns.
C24_ReadsOnlyAndConnectionClosed ==
    parser = "cylcdb" =>
        /\ Statements \subseteq {"PRAGMA table_info", "SELECT"}
        /\ TimesIn(trace, "PRAGMA table_info") <= 1 /\ TimesIn(trace, "SELECT") <= 1
        /\ pc = "done" /\ ConnectionOpened => ConnectionClosed

-----------------------------------------------------------------------------
(* UMProfilingParser.parse: a table without its bounds                     *)

\* The table is bounded when the header is found and a footer follows it.
UMBounded(t) == UMHeaderMatches(t) /\ UMFooterMatches(t) /\ UMSectionFound(t)

\* C25: UMProfilingParser.parse raises ValueError whenever the profiling table
\* cannot be bounded by the header followed by the footer: when the header is
\* absent, when the footer is absent, and when the footer occurs only before
\* the header.
C25_UnboundedTableRaisesValueError ==
    parser = "um" /\ pc = "done" /\ ~UMBounded(text) => outcome = "ValueError"

-----------------------------------------------------------------------------
(* ESMF hierarchical mode: the parent stack                                *)

\* C26: in hierarchical mode, after every processed line the parent stack is
\* non-empty, its bottom entry is the root with depth -1, and the depths on it
\* increase strictly from bottom to top; so taking the top of the stack as the
\* parent never fails.
C26_StackRootedAndIncreasing ==
    HierRun =>
        /\ Len(stack) >= 1
        /\ stack[1].node = <<>> /\ stack[1].level = -1
        /\ \A i \in 1..(Len(stack) - 1) : stack[i].level < stack[i + 1].level
        /\ outcome # "IndexError"

\* A line of depth 1 has replaced another line of depth 1 on the stack, above
\* the root and an unindented line.
C26_Witness ==
    /\ HierRun /\ Len(accepted) = 3 /\ Len(stack) = 3
    /\ accepted[1].level = 0 /\ accepted[2].level = 1 /\ accepted[3].level = 1
    /\ accepted[2].node # accepted[3].node
    /\ stack[2].node = accepted[1].node /\ stack[3].node = accepted[3].node

-----------------------------------------------------------------------------
(* PayuManager.run_experiments: what is marked DONE                        *)

\* The names the runner was given in the call that has just ended.
SubmittedNow ==
    IF trace = <<>> THEN {}
    ELSE {trace[1].running_branches[k] : k \in 1..Len(trace[1].running_branches)}

\* C27: run_experiments sets the status of an experiment to DONE only if the
\* experiment was submitted to the runner during the same call and the runner
\* returned normally; over a sequence of calls, an experiment left RUNNING by
\* a call whose runner raised is not marked DONE by a later call that did not
\* run it.
C27_DoneOnlyIfRunInTheSameCall ==
    (parser = "run" /\ pc = "done") =>
        /\ \A i \in 1..Len(experiments) :
              experiments[i].status = "DONE" /\ text.experiments[i].status # "DONE" =>
                  /\ outcome = "returned"
                  /\ experiments[i].name \in SubmittedNow
        /\ calls # <<>> /\ calls[Len(calls)].outcome = "RunnerError" =>
              \A i \in 1..Len(experiments) :
                  /\ text.experiments[i].status = "RUNNING"
                  /\ experiments[i].name \notin SubmittedNow
                  => experiments[i].status # "DONE"

-----------------------------------------------------------------------------
(* ProfilingExperiment: the status and the path                            *)

\* C29: for an experiment whose status is changed only by the constructor
\* and by archive() (which acts on an experiment the manager has marked
\* DONE), the status is ARCHIVED exactly when directory() takes the path for
\* a tar.gz archive (path.suffixes == ['.tar', '.gz']); this covers archive
\* names that contain dots.
C29_ArchivedIffPathIsTarGz ==
    parser = "archive" =>
        (experiments[1].status = "ARCHIVED" <=> IsTarGz(experiments[1].path))

-----------------------------------------------------------------------------
(* ProfilingManager.parse_profiling_data: a call that raises               *)

ParseRaised == parser = "parse" /\ pc = "done" /\ outcome # "returned"

\* The logs whose parse ends the call: any exception of a log that is not
\* optional, any exception but FileNotFoundError of an optional one.
EndsTheCall(log) ==
    log.parse # "ok" /\ ~(log.optional /\ log.parse = "FileNotFoundError")
FailingLog == Smallest({k \in 1..Len(text.logs) : EndsTheCall(text.logs[k])})
FailingExperiment == Smallest(StartedAs("DONE") \cup StartedAs("ARCHIVED"))

-----------------------------------------------------------------------------
(* ProfilingManager: the keys of data and of experiments                   *)

\* C28: after any sequence of operations of a ProfilingManager
\* (add_experiment_from_directory, delete_experiment, parse_profiling_data,
\* archive_experiments), every key of manager.data is a key of
\* manager.experiments, so that plot_scaling_data finds the experiment of
\* every parsed dataset.
C28_DataKeysAreExperiments ==
    parser = "manager" => DOMAIN data \subseteq Keys(experiments)

-----------------------------------------------------------------------------
(* ESMF: the lines that are used                                           *)

\* The line has at least nine tokens and its last eight are, in order,
\* int, int, int, float, float, int, float, int.
NineTokensEightNumbers(line) ==
    LET n == Len(line.parts) IN
    /\ n >= 9
    /\ IsInt(line.parts[n - 7]) /\ IsInt(line.parts[n - 6]) /\ IsInt(line.parts[n - 5])
    /\ IsFloat(line.parts[n - 4]) /\ IsFloat(line.parts[n - 3]) /\ IsInt(line.parts[n - 2])
    /\ IsFloat(line.parts[n - 1]) /\ IsInt(line.parts[n])

\* The step read a line of the stream.
ESMFLineRead == parser = "esmf" /\ nread' = nread + 1

\* After the step the line just read is in the result (or the step raised).
InResultAfter(line) ==
    LET region == RegionOf(line.parts) IN
    IF hierarchical
    THEN \E node \in DOMAIN tree' :
            /\ node[Len(node)] = region
            /\ tree'[node] = StatsDict(StatsOf(line.parts))
            /\ stack'[Len(stack')].node = node
    ELSE \/ pc' = "done" /\ outcome' # "returned"
         \/ \E i \in 1..Len(result'["region"]) : result'["region"][i] = region

\* C21: in both ESMF modes a line is used if and only if it has at least
\* nine tokens and its last eight parse as int, int, int, float, float, int,
\* float, int; any other line is skipped without error and changes nothing;
\* and when no line of the text is used read raises ValueError.
C21_LineUsedIffNineTokensEightNumbers ==
    /\ [][ESMFLineRead =>
            IF NineTokensEightNumbers(text'[1])
            THEN InResultAfter(text'[1])
            ELSE UNCHANGED <<result, tree, stack, pc, outcome, accepted>>]_vars
    /\ [](parser = "esmf" /\ pc = "done" /\ accepted = <<>> => outcome = "ValueError")
    /\ [](parser = "esmf" /\ outcome = "ValueError" /\ hierarchical => accepted = <<>>)

\* A run that passed over two lines, used the line after them and returned.
C21_Witness ==
    /\ parser = "esmf" /\ pc = "done" /\ outcome = "returned"
    /\ nread = 3 /\ Len(accepted) = 1
    /\ text = <<StatLine(0, "B", 1, 1, 1, 1, 2, 0, 5, 0)>>

-----------------------------------------------------------------------------

InitESMF ==
    /\ parser = "esmf"
    /\ hierarchical \in BOOLEAN
    /\ has_hits = TRUE
    /\ text = <<>>
    /\ result = IF hierarchical THEN [k \in {} |-> <<>>] ELSE EmptyResult(ESMFMetrics)
    /\ tree = [p \in {} |-> 0]
    /\ stack = IF hierarchical THEN <<RootEntry>> ELSE <<>>

\* One instance and the streams its threads call read on.
InitShared ==
    /\ parser = "shared"
    /\ hierarchical \in BOOLEAN
    /\ has_hits = TRUE
    /\ text = <<>>
    /\ result = EmptyResult(ESMFMetrics)
    /\ tree = [p \in {} |-> 0]
    /\ stack = <<>>
    /\ calls \in [Threads -> {CallInit(hierarchical, ls) :
                                 ls \in SeqsUpTo(CallLines(hierarchical), MaxCallLines)}]

\* A parser that matches the whole text at once, on one of the texts.
InitWhole(p, texts, metrics) ==
    /\ parser = p
    /\ hierarchical = FALSE
    /\ text \in texts
    /\ result = EmptyResult(metrics)
    /\ tree = [q \in {} |-> 0]
    /\ stack = <<>>

\* One experiment and one call of its archive.
InitArchive ==
    /\ parser = "archive"
    /\ hierarchical = FALSE
    /\ has_hits = TRUE
    /\ text \in ArchiveInputs
    /\ result = EmptyResult(<<>>)
    /\ tree = [p \in {} |-> 0]
    /\ stack = <<>>
    /\ experiments = <<text.experiment>>
    /\ fs = text.present

\* A manager, its experiments and one call of one of its operations.
InitManager(p, inputs) ==
    /\ parser = p
    /\ hierarchical = FALSE
    /\ has_hits = TRUE
    /\ text \in inputs
    /\ result = EmptyResult(<<>>)
    /\ tree = [p2 \in {} |-> 0]
    /\ stack = <<>>
    /\ experiments = text.experiments
    /\ calls = <<>>

\* One call of one parser.
InitParser ==
    /\ \/ InitESMF
       \/ InitWhole("um", UMTexts, UMMetrics) /\ has_hits = TRUE
       \/ InitWhole("umtotal", UMTotalTexts, UMTotalMetrics) /\ has_hits = TRUE
       \/ has_hits \in BOOLEAN /\ InitWhole("fms", FMSTexts, FMSMetrics(has_hits))
       \/ InitWhole("cice5", CICE5Texts, CICE5Metrics) /\ has_hits = TRUE
       \/ InitWhole("cylc", CylcTexts, CylcMetrics) /\ has_hits = TRUE
       \/ InitWhole("cylcdb", CylcDBs, CylcMetrics) /\ has_hits = TRUE
    /\ calls = <<>>
    /\ experiments = <<>>
    /\ data = {}
    /\ fs = {}

Init ==
    /\ pc = "reading"
    /\ outcome = "running"
    /\ started = FALSE
    /\ nread = 0
    /\ accepted = <<>>
    /\ message = {}
    /\ trace = <<>>
    /\ \/ InitParser
       \/ InitShared /\ experiments = <<>> /\ data = {} /\ fs = {}
       \/ InitArchive /\ calls = <<>> /\ data = {}
       \/ InitManager("run", RunInputs) /\ data = {} /\ fs = {}
       \/ InitManager("parse", ParseInputs) /\ data = text.previous /\ fs = {}
       \/ InitManager("generate", GenerateInputs) /\ data = {} /\ fs = {}
       \/ InitManager("discover", DiscoverInputs) /\ data = {} /\ fs = {}
       \/ InitManager("manager", ManagerInputs) /\ data = NoData /\ fs = {}

Next ==
    \/ ESMFSkipLine
    \/ ESMFFlatLine
    \/ ESMFHierLine
    \/ ESMFFinish
    \/ UMParse
    \/ UMTotalParse
    \/ FMSRead
    \/ CICE5Read
    \/ CylcParse
    \/ CylcDBConnect
    \/ CylcDBTableInfo
    \/ CylcDBSelect
    \/ CylcDBFinalise
    \/ \E t \in Threads : CallStep(t)
    \/ \E t \in Threads : CallReturn(t)
    \/ ArchiveCall
    \/ ArchiveAdd
    \/ ArchiveClose
    \/ RunExperiments
    \/ RunAgain
    \/ AddExperimentFromDirectory
    \/ DeleteExperiment
    \/ ManagerParse
    \/ ArchiveExperiments
    \/ ParseProfilingData
    \/ GenerateScalingExperiments
    \/ FindComponentDatasets

Spec == Init /\ [][Next]_vars

====
